---- MODULE Spec2Model ----
(***************************************************************************)
(* Model of the TraceLogging ETW registration context (ProviderContext /   *)
(* ProviderContextInner in tracelogging/src/native.rs), the Provider       *)
(* wrappers that register it, and the call-site code write_event! emits.   *)
(*                                                                         *)
(* Environment: the OS entry points (EventRegister, EventUnregister,       *)
(* EventSetInformation, EventWriteTransfer) are extern declarations.  The  *)
(* model gives them the least behaviour the code relies on: EventRegister  *)
(* stores a fresh non-zero handle on success and leaves the handle alone   *)
(* on failure; the enable callback is delivered only for an open           *)
(* registration, after its handle has been stored; EventUnregister closes  *)
(* the handle and no callback is delivered afterwards.                     *)
(***************************************************************************)
EXTENDS Integers, Sequences, FiniteSets, TLC

\* ----------------------------------------------------------------- bounds
\* Number of successful OS registrations in one behaviour.
MaxRegs == 2
\* Levels are 0..MaxLevel (the code's Level is a u8).
MaxLevel == 1
\* Keyword masks are KwBits wide (the code's masks are u64).
KwBits == 2
\* Number of fields of a write_event! invocation.
MaxFields == 2
\* Number of fields added to an EventBuilder between two resets.
MaxAdds == 1

\* Number of items at the top level of a write_event! schema.
MaxItems == 2
\* Number of member runs directly inside one struct of a schema.
MaxMemberRuns == 2

\* ------------------------------------------------------ program constants
\* "level: i32, // -1 means not enabled by anybody."
LevelNone == -1
\* "2 == EventProviderSetTraits"
EventProviderSetTraits == 2
\* "pub const TraceClassic: Channel = Channel(0)", "TraceLogging ... Channel(11)"
Channel_TraceClassic == 0
Channel_TraceLogging == 11
\* "pub const Info: Opcode = Opcode(0)"
Opcode_Info == 0
\* "pub const U8: InType = InType(4)"
InType_U8 == 4
\* EventBuilder::write: "if meta_len > 65535 { result = 534; // ERROR_ARITHMETIC_OVERFLOW"
MetaLenMax == 65535
ERROR_ARITHMETIC_OVERFLOW == 534
\* event_info.rs: the limits of write_event!
METADATA_BYTES_MAX == 65535
STRUCT_FIELDS_MAX == 127
DATA_DESC_MAX == 128
FIELDS_MAX == 128
U8_MAX == 255
OutType_Default == 0
OutType_Hex == 4
OutType_TypeMask == 127

\* Two application threads call into one context: the least number on which
\* calls overlap.
Threads == {1, 2}
Levels == 0 .. MaxLevel
Keywords == 0 .. (2 ^ KwBits - 1)
Handles == 1 .. MaxRegs
\* A caller either passes no callback (None, 0) or a callback and a context.
CallbackArgs == {<<"None", 0>>, <<"callback", 12345>>}
\* Control codes the OS hands to the enable callback: disable, enable, other.
ControlCodes == {0, 1, 2}

\* keyword & mask, bit by bit, as the machine computes it.
RECURSIVE BitAndW(_, _, _)
BitAndW(a, b, w) ==
    IF w = 0 THEN 0
    ELSE (a % 2) * (b % 2) + 2 * BitAndW(a \div 2, b \div 2, w - 1)

BitAnd(a, b) == BitAndW(a, b, KwBits)

VARIABLES
    level,              \* ProviderContextInner.level
    busy,               \* ProviderContextInner.busy
    reg_handle,         \* ProviderContextInner.reg_handle
    keyword_any,        \* ProviderContextInner.keyword_any
    keyword_all,        \* ProviderContextInner.keyword_all
    callback_fn,        \* ProviderContextInner.callback_fn
    callback_context,   \* ProviderContextInner.callback_context
    th,                 \* per thread: position in its call and the call's locals
    osOpen,             \* OS: handles of the registrations that are open
    osIssued,           \* OS: number of handles issued so far
    osTraits,           \* OS: handles whose provider traits have been set
    osLog,              \* observed: what the OS has seen that the claims speak of
    dropped,            \* the owning Provider has been destroyed
    eb,                 \* an EventBuilder: its meta and data buffers and descriptor
    mac,                \* the latest write_event! expansion: its schema and outcome
    app                 \* the latest call of a helper function: arguments and result

ctxVars == <<level, busy, reg_handle, keyword_any, keyword_all,
             callback_fn, callback_context>>
osVars == <<osOpen, osIssued, osTraits, osLog>>
\* The state outside the registration context and the OS.
otherVars == <<eb, mac, app>>
vars == <<level, busy, reg_handle, keyword_any, keyword_all, callback_fn,
          callback_context, th, osOpen, osIssued, osTraits, osLog, dropped,
          otherVars>>

\* A thread that is not inside any call.
IdleThread ==
    [pc |-> "idle", op |-> "none", was_busy |-> FALSE, result |-> 0,
     entryHandle |-> 0, osCalls |-> {}]

\* What the OS has seen: a write on an open handle before its traits were set
\* (and whether a register call was still running then), an unregister of a
\* handle that is not open, what the latest register() call that ran to its
\* end gave back to its caller, and the
\* native writes and value of the latest write_event! expression.
OsLogInit ==
    [earlyWrite |-> "none", badUnregister |-> FALSE, lastRegister |-> "none",
     lastEvent |-> <<>>]

\* ------------------------------------------------------------ byte vectors
\* A Vec<u8> is kept as its runs <<byte, count>>, count >= 1, neighbouring runs
\* of different bytes: one value per byte string, whatever its length.
RECURSIVE VecLen(_)
VecLen(v) == IF v = <<>> THEN 0 ELSE v[1][2] + VecLen(Tail(v))

\* Vec::extend with n copies of byte b
VecRepeat(v, b, n) ==
    IF n = 0 THEN v
    ELSE IF v # <<>> /\ v[Len(v)][1] = b
         THEN [v EXCEPT ![Len(v)] = <<b, v[Len(v)][2] + n>>]
         ELSE Append(v, <<b, n>>)

\* Vec::push
VecPush(v, b) == VecRepeat(v, b, 1)

\* Vec::extend_from_slice
RECURSIVE VecExtend(_, _)
VecExtend(v, w) ==
    IF w = <<>> THEN v
    ELSE VecExtend(VecRepeat(v, w[1][1], w[1][2]), Tail(w))

\* v[i], i counted from 0
RECURSIVE VecAt(_, _)
VecAt(v, i) == IF i < v[1][2] THEN v[1][1] ELSE VecAt(Tail(v), i - v[1][2])

\* &v[..n] and &v[n..]
RECURSIVE VecTake(_, _)
VecTake(v, n) ==
    IF n = 0 \/ v = <<>> THEN <<>>
    ELSE IF n < v[1][2] THEN <<<<v[1][1], n>>>>
         ELSE <<v[1]>> \o VecTake(Tail(v), n - v[1][2])

RECURSIVE VecDrop(_, _)
VecDrop(v, n) ==
    IF n = 0 \/ v = <<>> THEN v
    ELSE IF n < v[1][2] THEN <<<<v[1][1], v[1][2] - n>>>> \o Tail(v)
         ELSE VecDrop(Tail(v), n - v[1][2])

\* v[i] = b
VecSet(v, i, b) == VecExtend(VecPush(VecTake(v, i), b), VecDrop(v, i + 1))

\* The bytes of a str made of n copies of one character.
StrBytes(char, n) == VecRepeat(<<>>, char, n)

\* "x as u8", "x | 0x80" and "x & 0x7F" on a byte, "x >> n" on a u32
AsU8(x) == x % 256
Or80(b) == IF b % 256 >= 128 THEN b ELSE b + 128
And7F(b) == b % 128
Shr(x, n) == x \div (2 ^ n)

\* EventDescriptor::zero
EventDescriptor_zero ==
    [id |-> 0, version |-> 0, channel |-> Channel_TraceClassic, level |-> 0,
     opcode |-> Opcode_Info, task |-> 0, keyword |-> 0]

\* EventDescriptor::new
EventDescriptor_new(lvl, keyword) ==
    [id |-> 0, version |-> 0, channel |-> Channel_TraceLogging, level |-> lvl,
     opcode |-> Opcode_Info, task |-> 0, keyword |-> keyword]

\* EventBuilder::new_with_capacity: "b.meta.resize(4, 0)". last is what the
\* latest write() returned and the native calls it made.
EventBuilder_new ==
    [meta |-> VecRepeat(<<>>, 0, 4), data |-> <<>>,
     descriptor |-> EventDescriptor_zero,
     last |-> [result |-> 0, calls |-> <<>>]]

\* ProviderContextInner::new
Init ==
    /\ level = LevelNone
    /\ busy = FALSE
    /\ reg_handle = 0
    /\ keyword_any = 0
    /\ keyword_all = 0
    /\ callback_fn = "None"
    /\ callback_context = 0
    /\ th = [t \in Threads |-> IdleThread]
    /\ osOpen = {}
    /\ osIssued = 0
    /\ osTraits = {}
    /\ osLog = OsLogInit
    /\ dropped = FALSE
    /\ eb = EventBuilder_new
    /\ mac = [expanded |-> FALSE]
    /\ app = [op |-> "none"]

\* ProviderContextInner::enabled_keyword
enabled_keyword(keyword) ==
    \/ keyword = 0
    \/ /\ BitAnd(keyword, keyword_any) # 0
       /\ BitAnd(keyword, keyword_all) = keyword_all

\* ProviderContext::enabled
enabled(lvl, keyword) == lvl <= level /\ enabled_keyword(keyword)

\* ------------------------------------------------------------ thread steps
Set(t, rec) == th' = [th EXCEPT ![t] = rec]

\* Rust's borrow rules: a call through a shared reference can start only while
\* the context exists and nothing holds it exclusively (drop takes &mut self).
CanCall(t) ==
    /\ ~dropped
    /\ th[t].pc = "idle"
    /\ \A u \in Threads : th[u].op # "drop"

\* A register that goes on although the busy flag was already set.
RegisterIgnoresBusy(was_busy) == FALSE

\* register: "if was_busy { panic!(...) }"
RegisterPanicsWhenBusy(was_busy) == was_busy

\* A register that does not look at the handle it already holds.
AlreadyRegisteredIgnored == FALSE

\* register: "if self.reg_handle != 0 { ...; panic!(...) }"
AlreadyRegistered == reg_handle # 0

\* ProviderContextInner::register, entry: swap the busy flag, panic if it was set.
RegisterEnter(t) ==
    /\ CanCall(t)
    /\ busy' = TRUE
    /\ Set(t, [IdleThread EXCEPT
                 !.op = "register", !.was_busy = busy,
                 !.entryHandle = reg_handle,
                 !.pc = IF RegisterPanicsWhenBusy(busy) THEN "panicked"
                        ELSE "reg_check"])
    /\ UNCHANGED <<level, reg_handle, keyword_any, keyword_all, callback_fn,
                   callback_context, osVars, dropped>>
    /\ UNCHANGED otherVars

\* A register that panics on an already registered context with the busy
\* flag still set.
BusyAfterAlreadyRegisteredKept == busy

\* register: "self.busy.swap(false, atomic::Ordering::Relaxed);" ahead of the
\* already-registered panic
BusyAfterAlreadyRegistered == FALSE

\* ProviderContextInner::register: the already-registered check, then the
\* stores of the call's callback_fn and callback_context arguments (args).
RegisterCheck(t, args) ==
    /\ th[t].pc = "reg_check"
    /\ IF AlreadyRegistered
       THEN /\ busy' = BusyAfterAlreadyRegistered
            /\ Set(t, [th[t] EXCEPT !.pc = "panicked"])
            /\ UNCHANGED <<callback_fn, callback_context>>
       ELSE /\ callback_fn' = args[1]
            /\ callback_context' = args[2]
            /\ Set(t, [th[t] EXCEPT !.pc = "reg_os"])
            /\ UNCHANGED busy
    /\ UNCHANGED <<level, reg_handle, keyword_any, keyword_all, osVars,
                   dropped>>
    /\ UNCHANGED otherVars

\* extern EventRegister(provider_id, outer_callback, outer_context, &mut reg_handle):
\* on success the OS opens a registration and stores its handle; on failure it
\* returns a non-zero code and leaves the handle as it was.
RegisterOs(t) ==
    /\ th[t].pc = "reg_os"
    /\ \E ok \in BOOLEAN :
         IF ok
         THEN /\ osIssued < MaxRegs
              /\ osIssued' = osIssued + 1
              /\ osOpen' = osOpen \cup {osIssued + 1}
              /\ reg_handle' = osIssued + 1
              /\ Set(t, [th[t] EXCEPT !.pc = "reg_release", !.result = 0,
                           !.osCalls = @ \cup {<<"EventRegister", 0>>}])
         ELSE /\ Set(t, [th[t] EXCEPT !.pc = "reg_release", !.result = 8,
                           !.osCalls = @ \cup {<<"EventRegister", 0>>}])
              /\ UNCHANGED <<osIssued, osOpen, reg_handle>>
    /\ UNCHANGED <<level, busy, keyword_any, keyword_all, callback_fn,
                   callback_context, osTraits, osLog, dropped>>
    /\ UNCHANGED otherVars

\* What the caller of register() gets back: 0 is success, anything else failure.
RegisterOutcome(result) == IF result = 0 THEN "ok" ELSE "failed"

\* A Provider::register that never publishes the provider traits.
PublishesTraitsNever(result) == FALSE

\* Provider::register_impl / dynamic Provider::register: "if result == 0 {
\* self.context.set_information(2, ...) }"
PublishesTraits(result) == result = 0

\* ProviderContextInner::register, exit: "self.busy.swap(false, Release); return
\* result", back in Provider::register_impl.
RegisterRelease(t) ==
    /\ th[t].pc = "reg_release"
    /\ busy' = FALSE
    /\ Set(t, [th[t] EXCEPT !.pc = IF PublishesTraits(th[t].result)
                                  THEN "reg_setinfo" ELSE "returned"])
    /\ osLog' = IF PublishesTraits(th[t].result) THEN osLog
                ELSE [osLog EXCEPT !.lastRegister = RegisterOutcome(th[t].result)]
    /\ UNCHANGED <<level, reg_handle, keyword_any, keyword_all, callback_fn,
                   callback_context, osOpen, osIssued, osTraits, dropped>>
    /\ UNCHANGED otherVars

\* ProviderContext::set_information(2, meta): EventSetInformation on the handle
\* read now. The OS records the traits of an open registration.
RegisterSetInformation(t) ==
    /\ th[t].pc = "reg_setinfo"
    /\ osTraits' = IF reg_handle \in osOpen THEN osTraits \cup {reg_handle}
                   ELSE osTraits
    /\ Set(t, [th[t] EXCEPT !.pc = "returned",
                 !.osCalls = @ \cup {<<"EventSetInformation", EventProviderSetTraits>>}])
    /\ osLog' = [osLog EXCEPT !.lastRegister = RegisterOutcome(th[t].result)]
    /\ UNCHANGED <<ctxVars, osOpen, osIssued, dropped>>
    /\ UNCHANGED otherVars

\* An unregister that calls the OS whatever the handle is.
NothingToUnregisterNever == FALSE

\* An unregister that never calls the OS.
NothingToUnregisterAlways == TRUE

\* unregister: "if self.reg_handle == 0 { result = 0; }"
NothingToUnregister == reg_handle = 0

\* A context whose unregister sets the level to that of LogAlways events.
LevelAfterUnregisterLogAlways == LevelNone + 1

\* A context whose unregister leaves the level as the last callback set it.
LevelAfterUnregisterStale == level

\* unregister: "self.level = -1;" after the OS call
LevelAfterUnregister == LevelNone

\* ProviderContextInner::unregister, entry (also reached from Drop): swap the
\* busy flag; "if was_busy { result = 0; }" returns at once, flag untouched.
UnregisterBegin(t, op) ==
    /\ busy' = TRUE
    /\ Set(t, [IdleThread EXCEPT
                 !.op = op, !.was_busy = busy, !.entryHandle = reg_handle,
                 !.result = 0,
                 !.pc = IF busy THEN "returned" ELSE "unreg_check"])
    /\ UNCHANGED <<level, reg_handle, keyword_any, keyword_all, callback_fn,
                   callback_context, osVars, dropped>>
    /\ UNCHANGED otherVars

\* ProviderContext::unregister
UnregisterEnter(t) ==
    /\ CanCall(t)
    /\ UnregisterBegin(t, "unregister")

\* Drop for ProviderContext: "self.unregister();". Drop has the context
\* exclusively, so no other call is running.
DropEnter(t) ==
    /\ CanCall(t)
    /\ \A u \in Threads : th[u].pc = "idle"
    /\ UnregisterBegin(t, "drop")

\* ProviderContextInner::unregister: the handle test and, for a non-zero
\* handle, extern EventUnregister(reg_handle): the OS closes an open handle and
\* returns 0, or returns ERROR_INVALID_HANDLE for one that is not open.
UnregisterCheck(t) ==
    /\ th[t].pc = "unreg_check"
    /\ IF NothingToUnregister
       THEN /\ Set(t, [th[t] EXCEPT !.pc = "unreg_release", !.result = 0])
            /\ UNCHANGED <<osOpen, osTraits, osLog>>
       ELSE /\ osOpen' = osOpen \ {reg_handle}
            /\ osTraits' = osTraits \ {reg_handle}
            /\ osLog' = [osLog EXCEPT
                           !.badUnregister = @ \/ reg_handle \notin osOpen]
            /\ Set(t, [th[t] EXCEPT
                         !.pc = "unreg_level",
                         !.result = IF reg_handle \in osOpen THEN 0 ELSE 6,
                         !.osCalls = @ \cup {<<"EventUnregister", reg_handle>>}])
    /\ UNCHANGED <<ctxVars, osIssued, dropped>>
    /\ UNCHANGED otherVars

\* "self.level = -1;"
UnregisterLevel(t) ==
    /\ th[t].pc = "unreg_level"
    /\ level' = LevelAfterUnregister
    /\ Set(t, [th[t] EXCEPT !.pc = "unreg_handle"])
    /\ UNCHANGED <<busy, reg_handle, keyword_any, keyword_all, callback_fn,
                   callback_context, osVars, dropped>>
    /\ UNCHANGED otherVars

\* "self.reg_handle = 0;"
UnregisterHandle(t) ==
    /\ th[t].pc = "unreg_handle"
    /\ reg_handle' = 0
    /\ Set(t, [th[t] EXCEPT !.pc = "unreg_release"])
    /\ UNCHANGED <<level, busy, keyword_any, keyword_all, callback_fn,
                   callback_context, osVars, dropped>>
    /\ UNCHANGED otherVars

\* "self.busy.swap(false, atomic::Ordering::Release);"
UnregisterRelease(t) ==
    /\ th[t].pc = "unreg_release"
    /\ busy' = FALSE
    /\ Set(t, [th[t] EXCEPT !.pc = "returned"])
    /\ UNCHANGED <<level, reg_handle, keyword_any, keyword_all, callback_fn,
                   callback_context, osVars, dropped>>
    /\ UNCHANGED otherVars

\* The call is over: it returned to its caller or its panic unwound. When the
\* call was the drop, the context's memory is gone from here on.
Return(t) ==
    /\ th[t].pc \in {"returned", "panicked"}
    /\ dropped' = (dropped \/ th[t].op = "drop")
    /\ Set(t, IdleThread)
    /\ UNCHANGED <<ctxVars, osVars>>
    /\ UNCHANGED otherVars

\* ---------------------------------------------------------- enable callback
\* outer_callback_impl: the level stored for a control code
CallbackLevel(code, lvl) ==
    CASE code = 0 -> LevelNone
      [] code = 1 -> lvl
      [] OTHER -> level

\* A callback that clears the masks when it disables.
CallbackMasksCleared(code, any, all) ==
    IF code = 1 THEN <<any, all>>
    ELSE IF code = 0 THEN <<0, 0>> ELSE <<keyword_any, keyword_all>>

\* outer_callback_impl: the masks stored for a control code
CallbackMasks(code, any, all) ==
    IF code = 1 THEN <<any, all>> ELSE <<keyword_any, keyword_all>>

\* ProviderContextInner::outer_callback -> outer_callback_impl, run by the OS on
\* a thread of its choosing while the registration is open. The caller's
\* callback that it then invokes is the caller's code: it gets the arguments
\* and the stored context and has no access to the context's fields.
EnableCallback(code, lvl, any, all) ==
    /\ ~dropped
    /\ osOpen # {}
    /\ level' = CallbackLevel(code, lvl)
    /\ keyword_any' = CallbackMasks(code, any, all)[1]
    /\ keyword_all' = CallbackMasks(code, any, all)[2]
    /\ UNCHANGED <<busy, reg_handle, callback_fn, callback_context, th,
                   osVars, dropped>>
    /\ UNCHANGED otherVars

\* ------------------------------------------------------------------ writes
\* extern EventWriteTransfer(reg_handle, ...): 0 on an open registration,
\* ERROR_INVALID_HANDLE otherwise.
EventWriteTransfer(h) == IF h \in osOpen THEN 0 ELSE 6

\* Some register call has started and not yet returned or panicked.
RegisterRunning ==
    \E u \in Threads : th[u].op = "register" /\ th[u].pc \notin {"returned", "panicked"}

\* The OS receives a write on handle h: what it has seen afterwards.
OsSeesWrite(h) ==
    [osLog EXCEPT
       !.earlyWrite =
           IF h \in osOpen /\ h \notin osTraits
           THEN (IF RegisterRunning /\ @ # "after_return"
                 THEN "during_register" ELSE "after_return")
           ELSE @]

\* ProviderContext::write_transfer, as called by provider_write_transfer and by
\* EventBuilder::write: forwards to the OS with the handle read now, whether
\* or not the provider is enabled.
WriteTransfer(t) ==
    /\ CanCall(t)
    /\ osLog' = OsSeesWrite(reg_handle)
    /\ UNCHANGED <<ctxVars, th, osOpen, osIssued, osTraits, dropped>>
    /\ UNCHANGED otherVars

\* ------------------------------------------------ write_event! expansion
\* An invocation: the event's level and keyword constants, whether the
\* activity_id(...) and related_id(...) options are given, and the fields'
\* encoding strategies in order. Tokens are <<kind, name, index>>; the
\* caller's run-time expressions are the tokens of kind "expr".
Strategies == {"Scalar", "Counted", "Struct"}

FieldLists == UNION {[1 .. n -> Strategies] : n \in 0 .. MaxFields}

Events ==
    [level : Levels, keyword : Keywords, activity : BOOLEAN,
     related : BOOLEAN, fields : FieldLists]

\* The caller's expressions an invocation contains.
UserExprs(ev) ==
    (IF ev.activity THEN {<<"expr", "activity_id", 0>>} ELSE {})
    \cup (IF ev.related THEN {<<"expr", "related_id", 0>>} ELSE {})
    \cup {<<"expr", "value", i>> : i \in {j \in DOMAIN ev.fields : ev.fields[j] # "Struct"}}

\* add_borrowed_option_from_tokens: None, or Some(&tokens)
BorrowedOption(given, name) ==
    IF given THEN <<<<"ident", "Some", 0>>, <<"expr", name, 0>>>>
    ELSE <<<<"ident", "None", 0>>>>

\* add_field, call-site part (add_func_scalar_arg / add_func_slice_arg): the
\* value tokens go into the helper's call, wrapped in identity / as_ref.
FieldCallArg(i, strategy) ==
    CASE strategy = "Scalar" -> <<<<"ident", "identity", 0>>, <<"expr", "value", i>>>>
      [] strategy = "Counted" -> <<<<"ident", "as_ref", 0>>, <<"expr", "value", i>>>>
      [] OTHER -> <<>>

\* add_field, helper-body part (add_data_desc_for_arg_n /
\* add_data_desc_with_length): the body names the parameter _tlg_argN. The
\* slot of _tlg_lengths is written with the field's index.
FieldLengths(i, strategy) ==
    IF strategy = "Counted"
    THEN <<<<"ident", "counted_size", 0>>, <<"ident", "_tlg_arg", i>>>>
    ELSE <<>>

\* A generator that pastes the caller's value expression into the helper's
\* body instead of naming the parameter.
FieldDataDescInlinesValue(i, strategy) ==
    CASE strategy = "Scalar" -> <<<<"ident", "from_value", 0>>, <<"expr", "value", i>>>>
      [] strategy = "Counted" ->
            <<<<"ident", "from_value", 0>>, <<"ident", "_tlg_lengths", i>>,
              <<"ident", "from_counted", 0>>, <<"expr", "value", i>>>>
      [] OTHER -> <<>>

FieldDataDesc(i, strategy) ==
    CASE strategy = "Scalar" -> <<<<"ident", "from_value", 0>>, <<"ident", "_tlg_arg", i>>>>
      [] strategy = "Counted" ->
            <<<<"ident", "from_value", 0>>, <<"ident", "_tlg_lengths", i>>,
              <<"ident", "from_counted", 0>>, <<"ident", "_tlg_arg", i>>>>
      [] OTHER -> <<>>

\* add_field: what field i adds to one of the trees.
FieldTokens(tree, i, strategy) ==
    CASE tree = "func_call_tree" -> FieldCallArg(i, strategy)
      [] tree = "lengths_init_tree" -> FieldLengths(i, strategy)
      [] tree = "data_desc_init_tree" -> FieldDataDesc(i, strategy)

\* generate: "for field in event.fields.drain(..) { self.add_field(field); }"
RECURSIVE PerField(_, _, _)
PerField(tree, fields, i) ==
    IF i > Len(fields) THEN <<>>
    ELSE FieldTokens(tree, i, fields[i]) \o PerField(tree, fields, i + 1)

\* EventGenerator::generate: the three trees of the helper and its call.
func_call_tree(ev) ==
    <<<<"ident", "&PROVIDER", 0>>, <<"ident", "meta_as_bytes", 0>>,
      <<"ident", "&_TLG_DESC", 0>>>>
    \o BorrowedOption(ev.activity, "activity_id")
    \o BorrowedOption(ev.related, "related_id")
    \o PerField("func_call_tree", ev.fields, 1)

lengths_init_tree(ev) == PerField("lengths_init_tree", ev.fields, 1)

data_desc_init_tree(ev) ==
    <<<<"ident", "raw_meta", 0>>, <<"ident", "_tlg_meta", 0>>>>
    \o PerField("data_desc_init_tree", ev.fields, 1)

\* EventGenerator::generate, "code that runs if the provider is enabled": the
\* helper's call, whose arguments are evaluated at the call site, and the
\* helper's body, which builds the lengths and descriptors and makes the one
\* provider_write_transfer call.
enabled_tree(ev) ==
    func_call_tree(ev) \o lengths_init_tree(ev) \o data_desc_init_tree(ev)

\* EventGenerator::generate, "put it all together":
\* if !PROVIDER.enabled(_TLG_LEVEL, _TLG_KEYWORD) { 0 } else { enabled_tree }
generate(ev) ==
    [not |-> TRUE, level |-> ev.level, keyword |-> ev.keyword,
     then_tree |-> <<<<"literal", "0u32", 0>>>>]

\* How often token tok is evaluated when tree runs.
Occurrences(tree, tok) == Cardinality({i \in DOMAIN tree : tree[i] = tok})

\* Running the generated expression in the current state: which branch runs,
\* how often each of the caller's expressions is evaluated, how many native
\* writes are made and the expression's value.
Run(ev) ==
    LET code == generate(ev)
        test == enabled(code.level, code.keyword)
        cond == IF code.not THEN ~test ELSE test
    IN  IF cond
        THEN [evals |-> [e \in UserExprs(ev) |-> Occurrences(code.then_tree, e)],
              writes |-> 0, result |-> 0]
        ELSE [evals |-> [e \in UserExprs(ev) |-> Occurrences(enabled_tree(ev), e)],
              writes |-> 1, result |-> EventWriteTransfer(reg_handle)]

\* A thread evaluates a write_event! expression.
WriteEvent(t, ev) ==
    /\ CanCall(t)
    /\ LET r == Run(ev)
           seen == IF r.writes > 0 THEN OsSeesWrite(reg_handle) ELSE osLog
       IN  osLog' = [seen EXCEPT !.lastEvent = <<r.writes, r.result>>]
    /\ UNCHANGED <<ctxVars, th, osOpen, osIssued, osTraits, dropped>>
    /\ UNCHANGED otherVars

\* --------------------------------------------------------- specifications
ThreadStep(t) ==
    \/ RegisterEnter(t)
    \/ \E args \in CallbackArgs : RegisterCheck(t, args)
    \/ RegisterOs(t)
    \/ RegisterRelease(t)
    \/ RegisterSetInformation(t)
    \/ UnregisterEnter(t)
    \/ DropEnter(t)
    \/ UnregisterCheck(t)
    \/ UnregisterLevel(t)
    \/ UnregisterHandle(t)
    \/ UnregisterRelease(t)
    \/ Return(t)

\* The arguments matter to the context only under control code 1; under the
\* other codes the OS passes some fixed non-zero ones.
OsStep ==
    \E code \in ControlCodes :
        \E lvl \in (IF code = 1 THEN Levels ELSE {MaxLevel}),
           any \in (IF code = 1 THEN Keywords ELSE {1}),
           all \in (IF code = 1 THEN Keywords ELSE {1}) :
            EnableCallback(code, lvl, any, all)

\* Threads register, unregister, drop and write concurrently.
Next ==
    \/ \E t \in Threads : ThreadStep(t)
    \/ \E t \in Threads : WriteTransfer(t)
    \/ OsStep

Spec == Init /\ [][Next]_vars

\* Thread 1 owns the provider's lifecycle, thread 2 evaluates write_event!
\* expressions; the OS delivers callbacks as it likes.
NextWriteEvent ==
    \/ ThreadStep(1)
    \/ \E ev \in Events : WriteEvent(2, ev)
    \/ OsStep

SpecWriteEvent == Init /\ [][NextWriteEvent]_vars

\* ------------------------------------------------------------ EventBuilder
\* Names are runs of one character; the long ones bring the metadata to the
\* 65535-byte limit and one byte past it.
NameLens == {1, 300, MetaLenMax - 4, MetaLenMax - 3}
EventNames == {StrBytes(120, n) : n \in NameLens}
\* 28-bit event tags that reset writes in 1, 2 and 4 bytes.
Tags == {0, 2 ^ 14, 1}
\* A field: its name, out_type and tag (plain, with an out_type, with a tag).
FieldArgs ==
    {<<StrBytes(102, 1), 0, 0>>, <<StrBytes(102, 2), 4, 0>>,
     <<StrBytes(102, 1), 0, 2 ^ 21>>}
\* The non-default value the descriptor setters are called with.
DescriptorValues == {1}

\* A reset that writes every event tag in four bytes.
reset_tag_bytes_four(meta, event_tag) ==
    VecPush(VecPush(VecPush(VecPush(meta,
        Or80(AsU8(Shr(event_tag, 21)))),
        Or80(AsU8(Shr(event_tag, 14)))),
        Or80(AsU8(Shr(event_tag, 7)))),
        And7F(AsU8(event_tag)))

\* EventBuilder::reset, the event tag's bytes: the masks are 0x0FE00000 and
\* 0x0FFFC000.
reset_tag_bytes(meta, event_tag) ==
    IF BitAndW(event_tag, 2 ^ 28 - 2 ^ 21, 32) = event_tag
    THEN VecPush(meta, AsU8(Shr(event_tag, 21)))
    ELSE IF BitAndW(event_tag, 2 ^ 28 - 2 ^ 14, 32) = event_tag
    THEN VecPush(VecPush(meta, Or80(AsU8(Shr(event_tag, 21)))),
                 And7F(AsU8(Shr(event_tag, 14))))
    ELSE VecPush(VecPush(VecPush(VecPush(meta,
                 Or80(AsU8(Shr(event_tag, 21)))),
                 Or80(AsU8(Shr(event_tag, 14)))),
                 Or80(AsU8(Shr(event_tag, 7)))),
                 And7F(AsU8(event_tag)))

\* What reset keeps of the builder's metadata, data and descriptor: nothing.
MetaAfterClear(b) == <<>>
DataAfterClear(b) == <<>>
\* A reset that only stores the new level and keyword in the old descriptor.
DescriptorKeptAcrossReset(b, lvl, keyword) ==
    [b.descriptor EXCEPT !.level = lvl, !.keyword = keyword]

DescriptorAfterReset(b, lvl, keyword) == EventDescriptor_new(lvl, keyword)

\* EventBuilder::reset
reset(b, name, lvl, keyword, event_tag) ==
    [b EXCEPT
       !.meta = VecPush(VecExtend(
                    reset_tag_bytes(VecPush(VecPush(MetaAfterClear(b), 0), 0), event_tag),
                    name), 0),
       !.data = DataAfterClear(b),
       !.descriptor = DescriptorAfterReset(b, lvl, keyword)]

Reset(name, lvl, keyword, event_tag) ==
    /\ eb' = reset(eb, name, lvl, keyword, event_tag)
    /\ UNCHANGED <<ctxVars, th, osVars, dropped, mac, app>>

\* EventBuilder::id_version, channel, opcode, task
IdVersion(id, version) ==
    /\ eb' = [eb EXCEPT !.descriptor.id = id, !.descriptor.version = version]
    /\ UNCHANGED <<ctxVars, th, osVars, dropped, mac, app>>

SetChannel(channel) ==
    /\ eb' = [eb EXCEPT !.descriptor.channel = channel]
    /\ UNCHANGED <<ctxVars, th, osVars, dropped, mac, app>>

SetOpcode(opcode) ==
    /\ eb' = [eb EXCEPT !.descriptor.opcode = opcode]
    /\ UNCHANGED <<ctxVars, th, osVars, dropped, mac, app>>

SetTask(task) ==
    /\ eb' = [eb EXCEPT !.descriptor.task = task]
    /\ UNCHANGED <<ctxVars, th, osVars, dropped, mac, app>>

\* A raw_add_meta that writes the field tag in as few bytes as reset writes
\* the event tag.
raw_add_meta_short_tag(meta, field_name, in_type, out_type, field_tag) ==
    LET named == VecPush(VecExtend(meta, field_name), 0)
    IN  IF field_tag # 0
        THEN reset_tag_bytes(VecPush(VecPush(named, Or80(in_type)), Or80(out_type)),
                             field_tag)
        ELSE IF out_type # 0
        THEN VecPush(VecPush(named, Or80(in_type)), out_type)
        ELSE VecPush(named, in_type)

\* EventBuilder::raw_add_meta
raw_add_meta(meta, field_name, in_type, out_type, field_tag) ==
    LET named == VecPush(VecExtend(meta, field_name), 0)
    IN  IF field_tag # 0
        THEN VecPush(VecPush(VecPush(VecPush(VecPush(VecPush(named,
                 Or80(in_type)), Or80(out_type)),
                 Or80(AsU8(Shr(field_tag, 21)))),
                 Or80(AsU8(Shr(field_tag, 14)))),
                 Or80(AsU8(Shr(field_tag, 7)))),
                 AsU8(field_tag % 128))
        ELSE IF out_type # 0
        THEN VecPush(VecPush(named, Or80(in_type)), out_type)
        ELSE VecPush(named, in_type)

\* EventBuilder::add_u8: raw_add_meta_scalar(InType::U8) and raw_add_data_value
AddU8(field_name, field_value, out_type, field_tag) ==
    /\ VecLen(eb.data) < MaxAdds
    /\ eb' = [eb EXCEPT
                !.meta = raw_add_meta(@, field_name, InType_U8, out_type, field_tag),
                !.data = VecPush(@, field_value)]
    /\ UNCHANGED <<ctxVars, th, osVars, dropped, mac, app>>

\* EventBuilder::write: past 65535 metadata bytes it returns 534; otherwise it
\* patches the size into meta[0..2] and hands three descriptors to
\* ProviderContext::write_transfer, which forwards them to EventWriteTransfer.
\* A write that already refuses a buffer of exactly 65535 bytes.
WriteOverflowsAtLimit(meta_len) == meta_len >= MetaLenMax

WriteOverflows(meta_len) == meta_len > MetaLenMax

\* A write that stores only the low byte of the size.
SizePrefixLowByteOnly(meta_len) == <<AsU8(meta_len), 0>>

\* "self.meta[0] = meta_len as u8; self.meta[1] = (meta_len >> 8) as u8;"
SizePrefix(meta_len) == <<AsU8(meta_len), AsU8(Shr(meta_len, 8))>>

WriteDescriptors ==
    <<[bytes |-> "provider.meta", reserved |-> 2],
      [bytes |-> "self.meta", reserved |-> 1],
      [bytes |-> "self.data", reserved |-> 0]>>

write(b, handle) ==
    LET meta_len == VecLen(b.meta)
    IN  IF WriteOverflows(meta_len)
        THEN [b EXCEPT !.last = [result |-> ERROR_ARITHMETIC_OVERFLOW, calls |-> <<>>]]
        ELSE [b EXCEPT
                !.meta = VecSet(VecSet(@, 0, SizePrefix(meta_len)[1]),
                                1, SizePrefix(meta_len)[2]),
                !.last = [result |-> EventWriteTransfer(handle),
                          calls |-> <<WriteDescriptors>>]]

BuilderWrite ==
    /\ eb' = write(eb, reg_handle)
    /\ UNCHANGED <<ctxVars, th, osVars, dropped, mac, app>>

\* One thread builds and writes events with one builder.
NextBuilder ==
    \/ \E name \in EventNames, lvl \in Levels, keyword \in {1, 2 ^ KwBits - 1},
          event_tag \in Tags : Reset(name, lvl, keyword, event_tag)
    \/ \E id \in DescriptorValues, version \in DescriptorValues : IdVersion(id, version)
    \/ \E channel \in {Channel_TraceClassic} : SetChannel(channel)
    \/ \E opcode \in DescriptorValues : SetOpcode(opcode)
    \/ \E task \in DescriptorValues : SetTask(task)
    \/ \E f \in FieldArgs, field_value \in {7} : AddU8(f[1], field_value, f[2], f[3])
    \/ BuilderWrite

SpecBuilder == Init /\ [][NextBuilder]_vars

\* ------------------------------------------------- write_event! parsing
\* The rows of the field type catalog that the schemas below use.
FIELD_OPTIONS ==
    [u8       |-> [outtype |-> OutType_Default, strategy |-> "Scalar"],
     raw_meta |-> [outtype |-> OutType_Default, strategy |-> "RawMeta"],
     raw_data |-> [outtype |-> OutType_Default, strategy |-> "RawData"],
     struct   |-> [outtype |-> OutType_Default, strategy |-> "Struct"]]

\* A mutant of has_metadata: a field of any strategy counts as a member.
has_metadata_always(strategy) == TRUE

\* FieldStrategy::has_metadata
has_metadata(strategy) == strategy # "RawData"

\* FieldStrategy::data_count
data_count(strategy) ==
    CASE strategy \in {"Struct", "RawStruct", "RawMeta"} -> 0
      [] strategy \in {"Scalar", "RawData", "RawField"} -> 1
      [] OTHER -> 2

\* u8::saturating_add(1)
SaturatingInc(n) == IF n = U8_MAX THEN U8_MAX ELSE n + 1

\* A mutant of tag_size: every tag is given four bytes.
tag_size_four(tag) == 1 + 3

\* _internal::tag_size
tag_size(tag) ==
    IF 0 = BitAndW(tag, 2 ^ 21 - 1, 32) THEN 1
    ELSE IF 0 = BitAndW(tag, 2 ^ 14 - 1, 32) THEN 2
    ELSE IF 0 = BitAndW(tag, 2 ^ 7 - 1, 32) THEN 3
    ELSE 4

\* A schema item stands for n consecutive fields of one shape: the field type,
\* the length of the field name, the format(..) and tag(..) options (<<>> when
\* absent) and, for a struct, the items between its braces.
Item(option, name, format, tag, n, members) ==
    [option |-> option, name |-> name, format |-> format, tag |-> tag,
     n |-> n, members |-> members]

\* Vec<FieldInfo>::len, the vector kept as runs <<field, count>>.
RECURSIVE FieldsLen(_)
FieldsLen(fields) ==
    IF fields = <<>> THEN 0 ELSE fields[1][2] + FieldsLen(Tail(fields))

\* Vec<FieldInfo>::push
FieldsPush(fields, field) ==
    IF /\ fields # <<>>
       /\ fields[Len(fields)][1] = field
       /\ field.option # "struct"
    THEN [fields EXCEPT ![Len(fields)] = <<field, @[2] + 1>>]
    ELSE Append(fields, <<field, 1>>)

\* Errors::add_token: the token with its span set to pos
ErrorToken(kind, text, pos) == [kind |-> kind, text |-> text, span |-> pos]

\* The tokens of one directive, ::core::compile_error!("message");
Directive(pos, error_message) ==
    <<ErrorToken("punct", ":", pos), ErrorToken("punct", ":", pos),
      ErrorToken("ident", "core", pos),
      ErrorToken("punct", ":", pos), ErrorToken("punct", ":", pos),
      ErrorToken("ident", "compile_error", pos),
      ErrorToken("punct", "!", pos),
      ErrorToken("group", error_message, pos),
      ErrorToken("punct", ";", pos)>>

\* A mutant of Errors_add: the directive goes in front of the earlier ones.
Errors_add_front(error_tokens, pos, error_message) ==
    Directive(pos, error_message) \o error_tokens

\* Errors::add
Errors_add(error_tokens, pos, error_message) ==
    error_tokens \o Directive(pos, error_message)

\* errors.add(span, ..) at the span of the field option that is being parsed.
\* e.span is the position of that option's identifier among the field
\* options of the invocation, in source order; the event's name is at 0.
AddError(e, message) == [e EXCEPT !.errors = Errors_add(@, e.span, message)]

\* EventInfo::add_estimated_metadata
add_estimated_metadata(e, size) ==
    IF e.estimated_metadata_bytes_used = 0 THEN e
    ELSE IF METADATA_BYTES_MAX - e.estimated_metadata_bytes_used >= size
    THEN [e EXCEPT !.estimated_metadata_bytes_used = @ + size]
    ELSE AddError([e EXCEPT !.estimated_metadata_bytes_used = 0],
                  "event metadata is too large")

\* A mutant of add_data_desc_used: the total is not marked as reported.
add_data_desc_used_cascade(e, count) ==
    IF DATA_DESC_MAX - e.data_desc_used >= count
    THEN [e EXCEPT !.data_desc_used = @ + count]
    ELSE AddError(e, "event has too many blocks of data")

\* EventInfo::add_data_desc_used
add_data_desc_used(e, count) ==
    IF e.data_desc_used = 0 THEN e
    ELSE IF DATA_DESC_MAX - e.data_desc_used >= count
    THEN [e EXCEPT !.data_desc_used = @ + count]
    ELSE AddError([e EXCEPT !.data_desc_used = 0],
                  "event has too many blocks of data")

\* push_field: let metadata_size
FieldMetadataSize(field) ==
    field.name + 1
        + (IF field.tag # <<>> THEN 6
           ELSE IF field.outtype_or_field_count_int # 0 THEN 2
           ELSE 1)

\* A mutant of TooManyFields: the limit test is late by one field.
TooManyFieldsLate(len) == len = FIELDS_MAX + 1

\* push_field: self.fields.len() == FIELDS_MAX
TooManyFields(len) == len = FIELDS_MAX

\* EventInfo::push_field
push_field(e, field) ==
    LET e1 == add_estimated_metadata(e, FieldMetadataSize(field))
        e2 == add_data_desc_used(
                  e1, data_count(FIELD_OPTIONS[field.option].strategy))
        e3 == IF TooManyFields(FieldsLen(e2.fields))
              THEN AddError(e2, "event has too many fields")
              ELSE e2
    IN  [e3 EXCEPT !.fields = FieldsPush(@, field)]

\* parse_event_options: let mut field = FieldInfo { .. } and its options
FieldInfo(item) ==
    [option |-> item.option, name |-> item.name,
     outtype_or_field_count_expr |-> item.format,
     outtype_or_field_count_int |-> FIELD_OPTIONS[item.option].outtype,
     tag |-> item.tag]

\* A mutant of StructTooLarge: the limit applies outside structs as well.
StructTooLargeAnywhere(in_struct, logical_fields_added) ==
    logical_fields_added = STRUCT_FIELDS_MAX

\* parse_event_options: in_struct && logical_fields_added == STRUCT_FIELDS_MAX
StructTooLarge(in_struct, logical_fields_added) ==
    in_struct /\ logical_fields_added = STRUCT_FIELDS_MAX

\* parse_event_options: what follows the field's own arguments
\* option_ident_span is the span of the field's own option identifier.
CountField(r, item, in_struct, option_ident_span) ==
    IF has_metadata(FIELD_OPTIONS[item.option].strategy)
    THEN [e |-> IF StructTooLarge(in_struct, r.added)
                THEN [r.e EXCEPT !.errors =
                          Errors_add(@, option_ident_span,
                                     "too many fields in struct")]
                ELSE r.e,
          added |-> SaturatingInc(r.added)]
    ELSE r

RECURSIVE parse_event_options(_, _, _)

\* parse_event_options: one pass of its loop, for one field option. r holds
\* the event so far and logical_fields_added.
ParseField(r, item, in_struct) ==
    LET field == FieldInfo(item)
        option_ident_span == r.e.span + 1
        at == [r.e EXCEPT !.span = option_ident_span]
        parsed ==
            IF item.option = "struct"
            THEN LET pushed ==
                         push_field(at,
                             [field EXCEPT !.outtype_or_field_count_int = 1])
                     struct_index == Len(pushed.fields)
                     inner == parse_event_options(
                                  [e |-> pushed, added |-> 0], item.members, TRUE)
                 IN  [e |-> [inner.e EXCEPT
                                !.fields[struct_index][1]
                                    .outtype_or_field_count_int =
                                  BitAndW(inner.added, OutType_TypeMask, 8)],
                      added |-> r.added]
            ELSE [e |-> push_field(at, field), added |-> r.added]
    IN  CountField(parsed, item, in_struct, option_ident_span)

\* k passes of the loop over k consecutive fields of the same shape, one
\* after the other.
RECURSIVE ParseRun(_, _, _, _)
ParseRun(r, item, k, in_struct) ==
    IF k = 0 THEN r
    ELSE IF k = 1 THEN ParseField(r, item, in_struct)
    ELSE LET half == ParseRun(r, item, k \div 2, in_struct)
         IN  IF half.added >= 0
             THEN ParseRun(half, item, k - k \div 2, in_struct)
             ELSE half

\* EventInfo::parse_event_options
parse_event_options(r, items, in_struct) ==
    IF items = <<>> THEN r
    ELSE LET run == ParseRun(r, items[1], items[1].n, in_struct)
         IN  IF run.added >= 0
             THEN parse_event_options(run, Tail(items), in_struct)
             ELSE run

\* EventInfo::try_from_tokens
try_from_tokens(schema) ==
    LET event == [name |-> schema.name, tag |-> schema.tag, fields |-> <<>>,
                  data_desc_used |-> 2, estimated_metadata_bytes_used |-> 2 + 4,
                  errors |-> <<>>, span |-> 0]
        named == add_estimated_metadata(event, schema.name + 1)
    IN  parse_event_options([e |-> named, added |-> 0], schema.top, FALSE).e

\* EventGenerator::add_field: the metadata bytes of one field
add_field_meta(field) ==
    IF has_metadata(FIELD_OPTIONS[field.option].strategy)
    THEN LET has_out == \/ field.outtype_or_field_count_expr # <<>>
                        \/ field.outtype_or_field_count_int # 0
             has_tag == field.tag # <<>>
         IN  field.name + 1 + 1
                 + (IF has_out \/ has_tag THEN 1 ELSE 0)
                 + (IF has_tag THEN tag_size(field.tag[1]) ELSE 0)
    ELSE 0

\* EventGenerator::generate: size_of::<_TlgMeta>(), field by field
RECURSIVE fields_meta(_)
fields_meta(fields) ==
    IF fields = <<>> THEN 0
    ELSE fields[1][2] * add_field_meta(fields[1][1]) + fields_meta(Tail(fields))

\* EventGenerator::generate: size_of::<_TlgMeta>()
TlgMeta_size(event) ==
    2 + tag_size(IF event.tag = <<>> THEN 0 ELSE event.tag[1])
      + event.name + 1 + fields_meta(event.fields)

\* The schemas that are expanded.
EventNameLens == {1, METADATA_BYTES_MAX - 10}
OptionalTags == {<<>>, <<1>>}
OptionalFormats == {<<>>, <<OutType_Hex>>}
PlainItems ==
    {Item(option, 1, format, tag, n, <<>>) :
        option \in {"u8", "raw_meta"}, format \in OptionalFormats,
        tag \in OptionalTags,
        n \in {1, STRUCT_FIELDS_MAX, STRUCT_FIELDS_MAX + 1}}
        \cup {Item("raw_data", 0, <<>>, <<>>, 1, <<>>)}
InnerStructs ==
    {Item("struct", 1, <<>>, <<>>, 1,
          <<Item("raw_meta", 1, <<>>, <<>>, n, <<>>)>>) :
        n \in {1 + 1, STRUCT_FIELDS_MAX, STRUCT_FIELDS_MAX + 1}}
MemberItems ==
    {Item("raw_meta", 1, <<>>, <<>>, n, <<>>) :
        n \in {1, STRUCT_FIELDS_MAX - 1, STRUCT_FIELDS_MAX,
               STRUCT_FIELDS_MAX + 1, 3 * FIELDS_MAX}}
        \cup {Item("u8", 1, <<>>, <<>>, 1, <<>>),
              Item("raw_data", 0, <<>>, <<>>, 1, <<>>)}
        \cup InnerStructs
StructItems ==
    {Item("struct", 1, <<>>, tag, 1, members) :
        tag \in OptionalTags,
        members \in UNION {[1 .. n -> MemberItems] : n \in 0 .. MaxMemberRuns}}
TrailingItems ==
    {Item("u8", 1, <<>>, <<>>, 1, <<>>),
     Item("raw_meta", 1, <<OutType_Hex>>, <<>>, 1, <<>>),
     Item("raw_meta", 1, <<>>, <<>>, STRUCT_FIELDS_MAX, <<>>)}
TopLevels ==
    {<<>>} \cup
    {<<first>> \o rest :
        first \in PlainItems \cup StructItems,
        rest \in UNION {[1 .. n -> TrailingItems] : n \in 0 .. (MaxItems - 1)}}
Schemas == [name : EventNameLens, tag : OptionalTags, top : TopLevels]

\* generate: size_of::<_TlgMeta>() as u16
SizePrefixOf(size) == size % (2 ^ 16)

\* One write_event! invocation: parse the schema and, when no diagnostic was
\* raised, generate the event's metadata. Every invocation starts from an
\* EventInfo of its own, so one invocation is followed from the start.
WriteEventMacro(schema) ==
    /\ ~mac.expanded
    /\ LET event == try_from_tokens(schema)
           ok == event.errors = <<>>
       IN  mac' = [expanded |-> TRUE, schema |-> schema, event |-> event, ok |-> ok,
                   meta_size |-> IF ok THEN TlgMeta_size(event) ELSE 0,
                   size_prefix |-> IF ok THEN SizePrefixOf(TlgMeta_size(event))
                                   ELSE 0]
    /\ UNCHANGED <<ctxVars, th, osVars, dropped, eb, app>>

NextMacro == \E schema \in Schemas : WriteEventMacro(schema)

SpecMacro == Init /\ [][NextMacro]_vars

\* ------------------------------------------------------ provider metadata
\* Guid::to_bytes_le
Guid_to_bytes_le(g) ==
    <<AsU8(g.data1), AsU8(Shr(g.data1, 8)), AsU8(Shr(g.data1, 16)),
      AsU8(Shr(g.data1, 24)),
      AsU8(g.data2), AsU8(Shr(g.data2, 8)),
      AsU8(g.data3), AsU8(Shr(g.data3, 8))>> \o g.data4

\* Vec<u8>::extend_from_slice of an array
RECURSIVE VecExtendBytes(_, _)
VecExtendBytes(v, bytes) ==
    IF bytes = <<>> THEN v
    ELSE VecExtendBytes(VecPush(v, Head(bytes)), Tail(bytes))

\* A mutant of u16_to_le_bytes: the bytes are in big-endian order.
u16_to_be_bytes(x) == <<AsU8(Shr(x, 8)), AsU8(x)>>

\* u16::to_le_bytes
u16_to_le_bytes(x) == <<AsU8(x), AsU8(Shr(x, 8))>>

\* new_with_id: GROUP_TRAIT_LEN
GROUP_TRAIT_LEN == 2 + 1 + 16

\* tracelogging_dynamic Provider::new_with_id: the metadata it builds.
\* group_id is <<>> or <<guid>>.
Provider_new_with_id(name, group_id) ==
    LET name_len == VecLen(name) % 2 ^ 16
        traits_len == IF group_id # <<>> THEN GROUP_TRAIT_LEN ELSE 0
        meta_len == (2 + name_len + 1 + traits_len) % 2 ^ 16
        named == VecPush(VecExtend(VecExtendBytes(<<>>, u16_to_le_bytes(meta_len)),
                                   name), 0)
    IN  IF traits_len # 0
        THEN VecExtendBytes(
                 VecPush(VecExtendBytes(named, u16_to_le_bytes(GROUP_TRAIT_LEN)), 1),
                 Guid_to_bytes_le(group_id[1]))
        ELSE named

\* A mutant of GroupTraitHeader: the trait size leaves out the size field.
GroupTraitHeaderShort == <<17, 0, 1>>

\* ProviderGenerator::generate: meta.push(19); meta.push(0); meta.push(1)
GroupTraitHeader == <<19, 0, 1>>

\* ProviderGenerator::generate: the metadata that define_provider! embeds.
ProviderGenerator_generate(name, group_id) ==
    LET named == VecPush(VecExtend(VecPush(VecPush(<<>>, 0), 0), name), 0)
        meta == IF group_id # <<>>
                THEN VecExtendBytes(VecExtendBytes(named, GroupTraitHeader),
                                    Guid_to_bytes_le(group_id[1]))
                ELSE named
    IN  VecSet(VecSet(meta, 0, AsU8(VecLen(meta))),
               1, AsU8(Shr(VecLen(meta), 8)))

\* The providers that are defined: names below 32768 bytes without NUL.
ProviderNameLimit == 32768
ProviderNameLens ==
    {0, 1, 2, 233, 234, 252, 253, 254, ProviderNameLimit - 2,
     ProviderNameLimit - 1}
ProviderNames == {StrBytes(char, n) : char \in {19, 97}, n \in ProviderNameLens}
Guids ==
    {[data1 |-> 0, data2 |-> 0, data3 |-> 0,
      data4 |-> <<0, 0, 0, 0, 0, 0, 0, 0>>],
     [data1 |-> 16909060, data2 |-> 1286, data3 |-> 1800,
      data4 |-> <<9, 10, 11, 12, 13, 14, 15, 16>>],
     [data1 |-> 2147483647, data2 |-> 2 ^ 16 - 1, data3 |-> 2 ^ 16 - 1,
      data4 |-> <<255, 255, 255, 255, 255, 255, 255, 255>>],
     [data1 |-> 19, data2 |-> 256, data3 |-> 1,
      data4 |-> <<0, 19, 0, 1, 0, 0, 0, 97>>],
     [data1 |-> 97 * 2 ^ 24, data2 |-> 97, data3 |-> 97 * 256,
      data4 |-> <<97, 97, 0, 0, 0, 0, 97, 97>>]}
GroupIds == {<<>>} \cup {<<g>> : g \in Guids}

\* The same provider defined both ways: Provider::new_with_id at run time
\* and define_provider! at compile time.
DefineProvider(name, group_id) ==
    /\ app' = [op |-> "provider", name |-> name, group_id |-> group_id,
               dynamic_meta |-> Provider_new_with_id(name, group_id),
               static_meta |-> ProviderGenerator_generate(name, group_id)]
    /\ UNCHANGED <<ctxVars, th, osVars, dropped, eb, mac>>

NextProvider ==
    \E name \in ProviderNames, group_id \in GroupIds : DefineProvider(name, group_id)

SpecProvider == Init /\ [][NextProvider]_vars

\* ------------------------------------------------------- data descriptors
\* The largest byte size or element count that a 16-bit length prefix holds.
U16_MAX == 65535
\* The largest size of a slice in bytes that the model computes with.
SliceBytesMax == 1073741824

\* EventDataDescriptor::from_counted for len elements of size_of_T bytes:
\* the descriptor's size and reserved fields.
from_counted(size_of_T, len) ==
    LET max_len == U16_MAX \div size_of_T
        value_len == IF max_len < len THEN max_len ELSE len
    IN  [size |-> size_of_T * value_len, reserved |-> 0]

\* EventDataDescriptor::from_slice
from_slice(size_of_T, len) ==
    LET value_len == IF U16_MAX < len THEN U16_MAX ELSE len
    IN  [size |-> size_of_T * value_len, reserved |-> 0]

\* A mutant of safe_len: the length is converted without the limit.
safe_len_unclamped(max_len, len) == len % 2 ^ 16

\* descriptors::safe_len
safe_len(max_len, len) == IF max_len < len THEN max_len ELSE len % 2 ^ 16

\* descriptors::counted_size
counted_size(size_of_T, len) ==
    LET max_len == (U16_MAX \div size_of_T) % 2 ^ 16
    IN  ((size_of_T % 2 ^ 16) * safe_len(max_len, len)) % 2 ^ 16

\* descriptors::slice_count
slice_count(size_of_T, len) == safe_len(U16_MAX, len)

\* The slices that fields are made of: element sizes and lengths.
ElementSizes == {1, 2, 3, 4, 8, 16, 255, 256, U16_MAX, U16_MAX + 1, U16_MAX + 2}
SliceLens ==
    {0, 1, 2, 255, 256, 4095, 4096, 8191, 21844, 21845, 21846, 32767, 32768,
     U16_MAX - 1, U16_MAX, U16_MAX + 1, 2 * U16_MAX}
Slices ==
    {sl \in [size_of_T : ElementSizes, len : SliceLens] :
        sl.len <= SliceBytesMax \div sl.size_of_T}

\* A counted field and a slice field made of the same slice: the lengths that
\* the generated code stores in _tlg_lengths and the descriptors that follow.
AddLengthAndDescriptor(sl) ==
    /\ app' = [op |-> "slice", size_of_T |-> sl.size_of_T, len |-> sl.len,
               counted_size |-> counted_size(sl.size_of_T, sl.len),
               from_counted |-> from_counted(sl.size_of_T, sl.len),
               slice_count |-> slice_count(sl.size_of_T, sl.len),
               from_slice |-> from_slice(sl.size_of_T, sl.len)]
    /\ UNCHANGED <<ctxVars, th, osVars, dropped, eb, mac>>

NextDescriptors == \E sl \in Slices : AddLengthAndDescriptor(sl)

SpecDescriptors == Init /\ [][NextDescriptors]_vars

\* ------------------------------------------------------------ tag encoding
\* A u32 as two 16-bit halves, so that no intermediate value leaves 32 bits.
U32(x) == [hi |-> x \div 2 ^ 16, lo |-> x % 2 ^ 16]

\* u32 << 7, the bits shifted out at the top dropped
U32_shl7(bits) ==
    [hi |-> ((bits.hi % 2 ^ 9) * 2 ^ 7) + (bits.lo \div 2 ^ 9),
     lo |-> (bits.lo % 2 ^ 9) * 2 ^ 7]

\* ((bits >> 21) & 0x7F) as u8
U32_shr21_and7F(bits) == And7F(Shr(bits.hi, 5))

\* tag_encode: the loop from index i on, with the bits that are left
RECURSIVE tag_encode_from(_, _, _)
tag_encode_from(SIZE, bits, i) ==
    IF i = SIZE THEN <<>>
    ELSE LET chunk == U32_shr21_and7F(bits)
         IN  <<IF i # SIZE - 1 THEN Or80(chunk) ELSE chunk>>
                 \o tag_encode_from(SIZE, U32_shl7(bits), i + 1)

\* _internal::tag_encode::<SIZE>
tag_encode(SIZE, tag) == tag_encode_from(SIZE, U32(tag), 0)

\* The 28-bit tags that are encoded: every combination of four 7-bit groups.
TagGroups == {0, 1, 64, 127}
TagValues ==
    {a * 2 ^ 21 + b * 2 ^ 14 + c * 2 ^ 7 + d :
        a \in TagGroups, b \in TagGroups, c \in TagGroups, d \in TagGroups}

\* The metadata bytes of a tag as the generated code declares and fills them:
\* [u8; tag_size(TAG)] = tag_encode(TAG).
EncodeTag(tag) ==
    /\ app' = [op |-> "tag", tag |-> tag, size |-> tag_size(tag),
               bytes |-> tag_encode(tag_size(tag), tag)]
    /\ UNCHANGED <<ctxVars, th, osVars, dropped, eb, mac>>

NextTag == \E tag \in TagValues : EncodeTag(tag)

SpecTag == Init /\ [][NextTag]_vars

\* ------------------------------------------------------- Guid::from_name
\* a & b on 4-bit values, as a table; on 16-bit values, nibble by nibble.
And4 == [a \in 0 .. 15 |-> [b \in 0 .. 15 |-> BitAndW(a, b, 4)]]

And16(a, b) ==
    And4[a % 16][b % 16]
    + 16 * And4[(a \div 16) % 16][(b \div 16) % 16]
    + 256 * And4[(a \div 256) % 16][(b \div 256) % 16]
    + 4096 * And4[a \div 4096][b \div 4096]

\* u32 operations of Sha1NonSecret::drain on a u32 kept as two 16-bit halves
\* [hi, lo]: &, |, ^, !, wrapping_add, rotate_left(n) for 0 < n < 16 or n = 30.
u32_and(x, y) == [hi |-> And16(x.hi, y.hi), lo |-> And16(x.lo, y.lo)]
u32_or(x, y) ==
    [hi |-> x.hi + y.hi - And16(x.hi, y.hi), lo |-> x.lo + y.lo - And16(x.lo, y.lo)]
u32_xor(x, y) ==
    [hi |-> x.hi + y.hi - 2 * And16(x.hi, y.hi),
     lo |-> x.lo + y.lo - 2 * And16(x.lo, y.lo)]
u32_not(x) == [hi |-> 65535 - x.hi, lo |-> 65535 - x.lo]
u32_wrapping_add(x, y) ==
    [hi |-> (x.hi + y.hi + ((x.lo + y.lo) \div 65536)) % 65536,
     lo |-> (x.lo + y.lo) % 65536]
u32_rotate_left(x, n) ==
    IF n >= 16
    THEN [hi |-> ((x.lo * 2 ^ (n - 16)) % 65536) + (x.hi \div 2 ^ (32 - n)),
          lo |-> ((x.hi * 2 ^ (n - 16)) % 65536) + (x.lo \div 2 ^ (32 - n))]
    ELSE [hi |-> ((x.hi * 2 ^ n) % 65536) + (x.lo \div 2 ^ (16 - n)),
          lo |-> ((x.lo * 2 ^ n) % 65536) + (x.hi \div 2 ^ (16 - n))]

\* u32::from_be_bytes and u32::to_be_bytes
u32_from_be_bytes(b) == [hi |-> b[1] * 256 + b[2], lo |-> b[3] * 256 + b[4]]
u32_to_be_bytes(x) == <<x.hi \div 256, x.hi % 256, x.lo \div 256, x.lo % 256>>

\* Sha1NonSecret::new
Sha1NonSecret_new ==
    [chunk |-> [i \in 1 .. 64 |-> 0], chunk_count |-> 0, chunk_pos |-> 0,
     results |-> <<[hi |-> \h6745, lo |-> \h2301], [hi |-> \hEFCD, lo |-> \hAB89],
                   [hi |-> \h98BA, lo |-> \hDCFE], [hi |-> \h1032, lo |-> \h5476],
                   [hi |-> \hC3D2, lo |-> \hE1F0]>>]

\* drain: w[0..16] from the chunk, then w[wpos] =
\* (w[wpos-3] ^ w[wpos-8] ^ w[wpos-14] ^ w[wpos-16]).rotate_left(1). w[i] of
\* the code is w[i + 1] here.
Sha1ScheduleWord(w) ==
    LET wpos == Len(w) + 1
    IN  Append(w, u32_rotate_left(
                      u32_xor(u32_xor(u32_xor(w[wpos - 3], w[wpos - 8]),
                                      w[wpos - 14]), w[wpos - 16]), 1))

\* w filled up to n words, the lower half of the missing words first.
RECURSIVE Sha1Schedule(_, _)
Sha1Schedule(w, n) ==
    IF Len(w) >= n THEN w
    ELSE IF Len(w) + 1 = n THEN Sha1ScheduleWord(w)
    ELSE LET half == Sha1Schedule(w, (Len(w) + n) \div 2)
         IN  IF Len(half) >= 0 THEN Sha1Schedule(half, n) ELSE half

\* drain: K and f of the four loops over wpos
Sha1K(wpos) ==
    IF wpos < 20 THEN [hi |-> \h5A82, lo |-> \h7999]
    ELSE IF wpos < 40 THEN [hi |-> \h6ED9, lo |-> \hEBA1]
    ELSE IF wpos < 60 THEN [hi |-> \h8F1B, lo |-> \hBCDC]
    ELSE [hi |-> \hCA62, lo |-> \hC1D6]

Sha1F(wpos, b, c, d) ==
    IF wpos < 20 THEN u32_or(u32_and(b, c), u32_and(u32_not(b), d))
    ELSE IF wpos < 40 THEN u32_xor(u32_xor(b, c), d)
    ELSE IF wpos < 60 THEN u32_or(u32_or(u32_and(b, c), u32_and(b, d)), u32_and(c, d))
    ELSE u32_xor(u32_xor(b, c), d)

\* drain: one turn of a loop; v is <<a, b, c, d, e>>.
Sha1Round(v, w, wpos) ==
    LET temp == u32_wrapping_add(u32_wrapping_add(u32_wrapping_add(
                    u32_wrapping_add(u32_rotate_left(v[1], 5),
                                     Sha1F(wpos, v[2], v[3], v[4])),
                    v[5]), Sha1K(wpos)), w[wpos + 1])
    IN  <<temp, v[1], u32_rotate_left(v[2], 30), v[3], v[4]>>

\* drain: the loops' turns for wpos from first up to, not including, last.
RECURSIVE Sha1Rounds(_, _, _, _)
Sha1Rounds(v, w, first, last) ==
    IF first = last THEN v
    ELSE IF first + 1 = last THEN Sha1Round(v, w, first)
    ELSE LET half == Sha1Rounds(v, w, first, (first + last) \div 2)
         IN  IF Len(half) >= 0 THEN Sha1Rounds(half, w, (first + last) \div 2, last)
             ELSE half

\* Sha1NonSecret::drain
Sha1_drain(h) ==
    LET w == Sha1Schedule([i \in 1 .. 16 |->
                 u32_from_be_bytes(SubSeq(h.chunk, 4 * i - 3, 4 * i))], 80)
        v == Sha1Rounds(h.results, w, 0, 80)
    IN  [h EXCEPT !.results = [i \in 1 .. 5 |-> u32_wrapping_add(h.results[i], v[i])],
                  !.chunk_count = @ + 1]

\* Sha1NonSecret::write_u8
Sha1_write_u8(h, val) ==
    LET stored == [h EXCEPT !.chunk[h.chunk_pos + 1] = val,
                            !.chunk_pos = (@ + 1) % 64]
    IN  IF stored.chunk_pos = 0 THEN Sha1_drain(stored) ELSE stored

\* Sha1NonSecret::write
RECURSIVE Sha1_write(_, _)
Sha1_write(h, bytes) ==
    IF bytes = <<>> THEN h
    ELSE IF Len(bytes) = 1 THEN Sha1_write_u8(h, bytes[1])
    ELSE LET half == Sha1_write(h, SubSeq(bytes, 1, Len(bytes) \div 2))
         IN  IF half.chunk_pos >= 0
             THEN Sha1_write(half, SubSeq(bytes, Len(bytes) \div 2 + 1, Len(bytes)))
             ELSE half

\* finish: "while self.chunk_pos != 56 { self.write_u8(0); }": write_u8 moves
\* chunk_pos on by one modulo 64, so the loop writes (56 - chunk_pos) mod 64
\* zero bytes.
Sha1ZeroFill(h) ==
    Sha1_write(h, [i \in 1 .. ((56 + 64 - h.chunk_pos) % 64) |-> 0])

\* finish: total_bit_count.to_be_bytes(), for a u64 below 2^31
Sha1BitCountBytes(total_bit_count) ==
    <<0, 0, 0, 0>> \o u32_to_be_bytes([hi |-> total_bit_count \div 65536,
                                      lo |-> total_bit_count % 65536])

\* Sha1NonSecret::finish
Sha1_finish(h) ==
    LET total_bit_count == h.chunk_count * 512 + h.chunk_pos * 8
        done == Sha1_write(Sha1ZeroFill(Sha1_write_u8(h, 128)),
                           Sha1BitCountBytes(total_bit_count))
    IN  u32_to_be_bytes(done.results[1]) \o u32_to_be_bytes(done.results[2])
        \o u32_to_be_bytes(done.results[3]) \o u32_to_be_bytes(done.results[4])
        \o u32_to_be_bytes(done.results[5])

\* Guid::from_bytes_be; data1 is a u32 kept as two 16-bit halves.
from_bytes_be(b) ==
    [data1 |-> [hi |-> b[1] * 256 + b[2], lo |-> b[3] * 256 + b[4]],
     data2 |-> b[5] * 256 + b[6],
     data3 |-> b[7] * 256 + b[8],
     data4 |-> SubSeq(b, 9, 16)]

\* A mutant of from_bytes_le: the integer fields are read in big-endian order.
from_bytes_le_unswapped(b) == from_bytes_be(b)

\* Guid::from_bytes_le
from_bytes_le(b) ==
    [data1 |-> [hi |-> b[4] * 256 + b[3], lo |-> b[2] * 256 + b[1]],
     data2 |-> b[6] * 256 + b[5],
     data3 |-> b[8] * 256 + b[7],
     data4 |-> SubSeq(b, 9, 16)]

\* char::to_uppercase for ASCII letters and U+00DF, which becomes "SS"; the
\* other characters of the names below have no upper-case form.
to_uppercase(ch) ==
    IF ch \in 97 .. 122 THEN <<ch - 32>>
    ELSE IF ch = 223 THEN <<83, 83>>
    ELSE <<ch>>

\* char::encode_utf16: one unit, or a surrogate pair from U+10000 on
encode_utf16(ch) ==
    IF ch < 65536 THEN <<ch>>
    ELSE <<55296 + ((ch - 65536) \div 1024), 56320 + ((ch - 65536) % 1024)>>

\* from_name: the bytes hashed for the name, upper-cased UTF-16BE
RECURSIVE NameBytes(_)
NameBytes(units) ==
    IF units = <<>> THEN <<>>
    ELSE <<Head(units) \div 256, Head(units) % 256>> \o NameBytes(Tail(units))

RECURSIVE UpperUnits(_)
UpperUnits(chars) ==
    IF chars = <<>> THEN <<>>
    ELSE encode_utf16(Head(chars)) \o UpperUnits(Tail(chars))

RECURSIVE UpperChars(_)
UpperChars(name) ==
    IF name = <<>> THEN <<>>
    ELSE to_uppercase(Head(name)) \o UpperChars(Tail(name))

\* from_name: the namespace bytes written first
NameNamespace ==
    <<\h48, \h2C, \h2D, \hB2, \hC3, \h90, \h47, \hC8, \h87, \hF8, \h1A, \h15,
      \hBF, \hC1, \h30, \hFB>>

\* from_name: the hash of the namespace and the name
NameDigest(name) ==
    Sha1_finish(Sha1_write(Sha1_write(Sha1NonSecret_new, NameNamespace),
                           NameBytes(UpperUnits(UpperChars(name)))))

\* from_name: "(v[7] & 0x0F) | 0x50" in the 16 bytes handed on
NameGuidBytes(v) ==
    [i \in 1 .. 16 |-> IF i = 8 THEN (v[i] % 16) + 80 ELSE v[i]]

\* Guid::from_name
from_name(event_provider_name) ==
    from_bytes_le(NameGuidBytes(NameDigest(event_provider_name)))

\* Provider names as sequences of chars: all names of up to MaxNameChars chars
\* over a, M, 1, U+00DF and U+1F600, the names of the crate's tests, and names
\* of 19, 20 and 24 chars (one chunk to spare, padding into a second chunk, a
\* full chunk).
MaxNameChars == 3
NameAlphabet == {97, 77, 49, 223, 128512}
MyProviderName == <<77, 121, 80, 114, 111, 118, 105, 100, 101, 114>>
HashedNames ==
    UNION {[1 .. n -> NameAlphabet] : n \in 0 .. MaxNameChars}
    \cup {MyProviderName, UpperChars(MyProviderName),
          [i \in 1 .. 10 |-> IF MyProviderName[i] < 97 THEN MyProviderName[i] + 32
                             ELSE MyProviderName[i]]}
    \cup {[i \in 1 .. n |-> 97] : n \in {19, 20, 24}}

\* Guid::from_name(name); app keeps the name, the digest and the Guid.
GuidFromName(name) ==
    /\ app.op = "none"
    /\ app' = [op |-> "from_name", name |-> name, digest |-> NameDigest(name),
               guid |-> from_name(name)]
    /\ UNCHANGED <<ctxVars, th, osVars, dropped, eb, mac>>

NextGuid == \E name \in HashedNames : GuidFromName(name)

SpecGuid == Init /\ [][NextGuid]_vars

\* ------------------------------------------ sequences in the dynamic builder
\* "pub const U16: InType = InType(6)", "U32 ... InType(8)",
\* "pub const VariableCountFlag: u8 = 0x40"
InType_U16 == 6
InType_U32 == 8
InType_VariableCountFlag == 64

\* A loop that never stops taking items.
RangeFullNever(count) == FALSE

\* raw_add_data_range: "if count == u16::MAX { break; }"
RangeFull(count) == count = U16_MAX

\* raw_add_data_range, one turn of the loop for an item of the given bytes:
\* st is the data buffer, the u16 count and whether the loop has been left.
RangeItem(st, item) ==
    IF st.stopped THEN st
    ELSE IF RangeFull(st.count) THEN [st EXCEPT !.stopped = TRUE]
    ELSE [st EXCEPT !.count = (@ + 1) % 65536, !.data = VecExtend(@, item)]

\* The turns of the loop for n equal items in a row.
RECURSIVE RangeRun(_, _, _)
RangeRun(st, item, n) ==
    IF n = 0 THEN st
    ELSE IF n = 1 THEN RangeItem(st, item)
    ELSE LET half == RangeRun(st, item, n \div 2)
         IN  IF half.count >= 0 THEN RangeRun(half, item, n - n \div 2) ELSE half

\* The turns of the loop for field_values, given as its runs <<item, n>>.
RECURSIVE RangeRuns(_, _)
RangeRuns(st, field_values) ==
    IF field_values = <<>> THEN st
    ELSE LET first == RangeRun(st, field_values[1][1], field_values[1][2])
         IN  IF first.count >= 0 THEN RangeRuns(first, Tail(field_values)) ELSE first

\* EventBuilder::raw_add_data_range with add_data = raw_add_data_value: the
\* count's two bytes are reserved as 0, the items appended, the count stored.
raw_add_data_range(data, field_values) ==
    LET old_data_size == VecLen(data)
        done == RangeRuns([data |-> VecRepeat(data, 0, 2), count |-> 0,
                           stopped |-> FALSE], field_values)
    IN  VecSet(VecSet(done.data, old_data_size, AsU8(done.count)),
               old_data_size + 1, AsU8(Shr(done.count, 8)))

\* raw_add_meta_vcount
raw_add_meta_vcount(meta, field_name, in_type, out_type, field_tag) ==
    raw_add_meta(meta, field_name, in_type + InType_VariableCountFlag, out_type,
                 field_tag)

\* The item types of add_u8_sequence, add_u16_sequence and add_u32_sequence:
\* in-type and size of a value.
SequenceTypes == {<<InType_U8, 1>>, <<InType_U16, 2>>, <<InType_U32, 4>>}
\* Inputs: n1 items of one value followed by n2 items of another; a value is
\* given by the byte all its bytes are equal to.
SequenceFirstLens == {0, 1, 2, U16_MAX - 1, U16_MAX}
SequenceSecondLens == {0, 1, 2, 3}
SequenceFirstBytes == {1, 255}
SequenceSecondByte == 1 + 1

\* EventBuilder::add_u8_sequence / add_u16_sequence / add_u32_sequence(name,
\* field_values, Default, 0) as the first field of an event; app keeps the
\* arguments.
AddSequence(type, first_byte, n1, n2) ==
    /\ VecLen(eb.data) < MaxAdds
    /\ eb' = [eb EXCEPT
                !.meta = raw_add_meta_vcount(@, StrBytes(102, 1), type[1],
                                             OutType_Default, 0),
                !.data = raw_add_data_range(@,
                            <<<<StrBytes(first_byte, type[2]), n1>>,
                              <<StrBytes(SequenceSecondByte, type[2]), n2>>>>)]
    /\ app' = [op |-> "sequence", size |-> type[2], first_byte |-> first_byte,
               n1 |-> n1, n2 |-> n2, old_data_size |-> VecLen(eb.data)]
    /\ UNCHANGED <<ctxVars, th, osVars, dropped, mac>>

NextSequence ==
    \E type \in SequenceTypes, first_byte \in SequenceFirstBytes,
       n1 \in SequenceFirstLens, n2 \in SequenceSecondLens :
        AddSequence(type, first_byte, n1, n2)

SpecSequence == Init /\ [][NextSequence]_vars

\* ------------------------------------------------ tags in the dynamic builder
\* The 28-bit tags given to add_u8: every combination of the 7-bit groups
\* 0, 1 and 127, the tag 0 (no tag) among them.
FieldTagGroups == {0, 1, 127}
FieldTagValues ==
    {a * 2 ^ 21 + b * 2 ^ 14 + c * 2 ^ 7 + d :
        a \in FieldTagGroups, b \in FieldTagGroups, c \in FieldTagGroups,
        d \in FieldTagGroups}

\* EventBuilder::reset(name, level, keyword, event_tag) with a one-byte name;
\* app keeps the arguments of the call. A behaviour ends once MaxAdds fields
\* have been added.
ResetTagged(event_tag) ==
    /\ VecLen(eb.data) < MaxAdds
    /\ eb' = reset(eb, StrBytes(120, 1), 0, 1, event_tag)
    /\ app' = [op |-> "reset", tag |-> event_tag, name_len |-> 1]
    /\ UNCHANGED <<ctxVars, th, osVars, dropped, mac>>

\* EventBuilder::add_u8(name, value, out_type, field_tag) as the first field
\* after a reset; app keeps the arguments and where the field's metadata
\* starts.
AddU8Tagged(out_type, field_tag) ==
    /\ app.op = "reset"
    /\ VecLen(eb.data) < MaxAdds
    /\ eb' = [eb EXCEPT
                !.meta = raw_add_meta(@, StrBytes(102, 1), InType_U8, out_type, field_tag),
                !.data = VecPush(@, 7)]
    /\ app' = [op |-> "add_u8", tag |-> field_tag, out_type |-> out_type,
               name_len |-> 1, meta_start |-> VecLen(eb.meta)]
    /\ UNCHANGED <<ctxVars, th, osVars, dropped, mac>>

NextBuilderTags ==
    \/ \E event_tag \in TagValues : ResetTagged(event_tag)
    \/ \E out_type \in {OutType_Default, OutType_Hex}, field_tag \in FieldTagValues :
          AddU8Tagged(out_type, field_tag)

SpecBuilderTags == Init /\ [][NextBuilderTags]_vars

\* --------------------------------------------------------------- FILETIME
\* A u64 is kept as four 16-bit limbs, lowest first, so that every
\* intermediate value of the arithmetic below stays within 32 bits.
Limb == 2 ^ 16

\* A u64 from a number below 2^31
U64(x) == <<x % Limb, x \div Limb, 0, 0>>

\* u64::wrapping_add, limb by limb from limb i with a carry
RECURSIVE U64_add_from(_, _, _, _)
U64_add_from(a, b, i, carry) ==
    IF i > 4 THEN <<>>
    ELSE LET t == a[i] + b[i] + carry
         IN  <<t % Limb>> \o U64_add_from(a, b, i + 1, t \div Limb)

\* u64::wrapping_add
U64_wrapping_add(a, b) == U64_add_from(a, b, 1, 0)

\* u64::wrapping_sub, limb by limb from limb i with a borrow
RECURSIVE U64_sub_from(_, _, _, _)
U64_sub_from(a, b, i, borrow) ==
    IF i > 4 THEN <<>>
    ELSE LET t == a[i] - b[i] - borrow
         IN  IF t < 0
             THEN <<t + Limb>> \o U64_sub_from(a, b, i + 1, 1)
             ELSE <<t>> \o U64_sub_from(a, b, i + 1, 0)

\* u64::wrapping_sub (also the const `-`, which does not wrap)
U64_wrapping_sub(a, b) == U64_sub_from(a, b, 1, 0)

\* u64::wrapping_mul by a factor of at most 2^14, from limb i with a carry
RECURSIVE U64_mul_from(_, _, _, _)
U64_mul_from(a, k, i, carry) ==
    IF i > 4 THEN <<>>
    ELSE LET t == a[i] * k + carry
         IN  <<t % Limb>> \o U64_mul_from(a, k, i + 1, t \div Limb)

\* const u64 `/` by a divisor of at most 2^14, from limb i down with a
\* remainder
RECURSIVE U64_div_from(_, _, _, _)
U64_div_from(a, k, i, rem) ==
    IF i < 1 THEN <<>>
    ELSE LET t == rem * Limb + a[i]
         IN  U64_div_from(a, k, i - 1, t % k) \o <<t \div k>>

\* u64 <=
U64_le(a, b) ==
    \/ a = b
    \/ \E i \in 1 .. 4 : a[i] < b[i] /\ \A j \in (i + 1) .. 4 : a[j] = b[j]

\* The constants of filetime_from_duration_since_1970.
FILETIME_MIN == U64(0)
FILETIME_MAX == <<\h7FFF, \hF06C, \h35F4, \h7FFF>>
UNIX_EPOCH_FILETIME == <<\h8000, \hD53E, \hB1DE, \h019D>>
NANOS_MAX == 1000000000
NANOS_PER_FILETIME == 100

\* x.wrapping_mul(FILETIME_PER_SECOND), FILETIME_PER_SECOND = 10000000
\* taken as 10000 * 1000
U64_mul_FILETIME_PER_SECOND(x) ==
    U64_mul_from(U64_mul_from(x, 10000, 1, 0), 1000, 1, 0)

\* x / FILETIME_PER_SECOND
U64_div_FILETIME_PER_SECOND(x) ==
    U64_div_from(U64_div_from(x, 10000, 4, 0), 1000, 4, 0)

SECS_MAX_POS ==
    U64_div_FILETIME_PER_SECOND(
        U64_wrapping_sub(FILETIME_MAX, UNIX_EPOCH_FILETIME))
SECS_MAX_NEG ==
    U64_wrapping_sub(
        U64_div_FILETIME_PER_SECOND(
            U64_wrapping_sub(UNIX_EPOCH_FILETIME, FILETIME_MIN)),
        U64(1))

\* A mutant of BeforeEpochSubsec: the nanoseconds are rounded as after 1970.
BeforeEpochSubsecRoundedUp(nanos_1970) ==
    NANOS_MAX \div NANOS_PER_FILETIME - nanos_1970 \div NANOS_PER_FILETIME

\* ((NANOS_MAX - nanos_1970) / NANOS_PER_FILETIME) as u64
BeforeEpochSubsec(nanos_1970) == (NANOS_MAX - nanos_1970) \div NANOS_PER_FILETIME

\* _internal::filetime_from_duration_since_1970: the 64 bits of its result
filetime_from_duration_since_1970(secs_1970, nanos_1970, positive) ==
    IF positive
    THEN IF U64_le(secs_1970, SECS_MAX_POS)
         THEN U64_wrapping_add(
                  U64_wrapping_add(UNIX_EPOCH_FILETIME,
                                   U64_mul_FILETIME_PER_SECOND(secs_1970)),
                  U64(nanos_1970 \div NANOS_PER_FILETIME))
         ELSE FILETIME_MAX
    ELSE IF U64_le(secs_1970, SECS_MAX_NEG)
    THEN U64_wrapping_add(
             U64_wrapping_sub(
                 U64_wrapping_sub(UNIX_EPOCH_FILETIME,
                                  U64(NANOS_MAX \div NANOS_PER_FILETIME)),
                 U64_mul_FILETIME_PER_SECOND(secs_1970)),
             U64(BeforeEpochSubsec(nanos_1970)))
    ELSE FILETIME_MIN

\* `as i64`: the result is negative when its top bit is set
I64_negative(x) == x[4] >= 2 ^ 15

\* The durations that are converted.
DurationSecs ==
    {U64(0), U64(1), U64(2), U64(2147483647), <<0, 0, 1, 0>>,
     U64_wrapping_sub(SECS_MAX_NEG, U64(1)), SECS_MAX_NEG,
     U64_wrapping_add(SECS_MAX_NEG, U64(1)),
     U64_wrapping_sub(SECS_MAX_POS, U64(1)), SECS_MAX_POS,
     U64_wrapping_add(SECS_MAX_POS, U64(1)),
     <<0, 0, 0, 1>>, <<\hABCF, \h7F29, \h01AD, 0>>,
     <<Limb - 1, Limb - 1, Limb - 1, Limb - 1>>}
DurationNanos ==
    {0, 1, 99, 100, 101, 199, NANOS_MAX - 100, NANOS_MAX - 99, NANOS_MAX - 1}

\* The conversion of one time value, as the generated code of a systemtime
\* field calls it.
ConvertTime(secs_1970, nanos_1970, positive) ==
    /\ app' = [op |-> "filetime", secs |-> secs_1970, nanos |-> nanos_1970,
               positive |-> positive,
               filetime |-> filetime_from_duration_since_1970(
                                secs_1970, nanos_1970, positive)]
    /\ UNCHANGED <<ctxVars, th, osVars, dropped, eb, mac>>

NextFiletime ==
    \E secs_1970 \in DurationSecs, nanos_1970 \in DurationNanos,
       positive \in BOOLEAN :
        ConvertTime(secs_1970, nanos_1970, positive)

SpecFiletime == Init /\ [][NextFiletime]_vars

\* ------------------------------------------------------------- properties
\* The bits set in a mask.
Bits(n) == {i \in 0 .. (KwBits - 1) : (n \div (2 ^ i)) % 2 = 1}

\* The steps of register and unregister that run between taking the busy flag
\* and giving it back.
PastAcquisition ==
    {"reg_check", "reg_os", "reg_release",
     "unreg_check", "unreg_level", "unreg_handle", "unreg_release"}

\* C1: in every reachable state, enabled(level, keyword) is true exactly when
\* the context is registered (reg_handle # 0), level is at most the stored
\* level, and keyword is 0 or shares a bit with the any-mask and contains
\* every bit of the all-mask.
C1_EnabledIffRegisteredAndFiltered ==
    \A lvl \in Levels, kw \in Keywords :
        enabled(lvl, kw) <=>
            /\ reg_handle # 0
            /\ lvl <= level
            /\ \/ kw = 0
               \/ /\ Bits(kw) \cap Bits(keyword_any) # {}
                  /\ Bits(keyword_all) \subseteq Bits(kw)

\* C1 case: a registered context with a non-empty all-mask reports a non-zero
\* keyword enabled and another one disabled.
C1_Witness ==
    /\ reg_handle # 0
    /\ keyword_all # 0
    /\ \E kw \in Keywords \ {0} : enabled(MaxLevel, kw)
    /\ \E kw \in Keywords \ {0} : ~enabled(0, kw)

\* C2: a register() that starts while the context is registered panics: it
\* never gets past the already-registered check, so it makes no OS call and
\* returns neither success nor an error code.
C2_RegisterWhileRegisteredPanics ==
    \A t \in Threads :
        (th[t].op = "register" /\ th[t].entryHandle # 0) =>
            /\ th[t].pc \in {"reg_check", "panicked"}
            /\ th[t].osCalls = {}

\* C2 case: a register() that found the busy flag free and the handle set has
\* panicked, the registration it ran into still open.
C2_Witness ==
    \E t \in Threads :
        /\ th[t].op = "register"
        /\ th[t].entryHandle # 0
        /\ ~th[t].was_busy
        /\ th[t].pc = "panicked"
        /\ reg_handle = th[t].entryHandle
        /\ reg_handle \in osOpen

\* C3: at most one register/unregister call at a time is past the busy-flag
\* acquisition, where reg_handle, level and the callback fields are accessed
\* and the OS register/unregister entry points are called.
C3_OneCallPastAcquisition ==
    Cardinality({t \in Threads : th[t].pc \in PastAcquisition}) <= 1

\* C3 case: one call is at its OS step while another call has just found the
\* busy flag held.
C3_Witness ==
    \E t, u \in Threads :
        /\ t # u
        /\ th[t].pc \in {"reg_os", "unreg_level"}
        /\ th[u].op \in {"register", "unregister"}
        /\ th[u].was_busy
        /\ th[u].pc \in {"panicked", "returned"}

\* C4 (as claimed): every register() or unregister() call that finds the busy
\* flag already held panics.
C4_BusyCallPanics ==
    \A t \in Threads : th[t].was_busy => th[t].pc = "panicked"

\* enabled() is false whatever the level and keyword.
NeverEnabled == \A lvl \in Levels, kw \in Keywords : ~enabled(lvl, kw)

\* The OS calls of one kind a thread's current call has made.
CallsOf(rec, entry) == {c \in rec.osCalls : c[1] = entry}

\* A step of an unregister() that found the busy flag free and the context
\* unregistered: it makes no OS call, its result is 0 and it changes nothing
\* but the busy flag, which is free again when it returns.
C5_NoOpUnregisterStep ==
    \A t \in Threads :
        ( /\ th'[t] # th[t]
          /\ th'[t].op = "unregister"
          /\ th'[t].entryHandle = 0
          /\ ~th'[t].was_busy ) =>
            /\ UNCHANGED <<level, reg_handle, keyword_any, keyword_all,
                           callback_fn, callback_context, osVars, dropped>>
            /\ th'[t].osCalls = {}
            /\ th'[t].result = 0
            /\ (th'[t].pc = "returned") => ~busy'

\* C5: whenever the provider is unregistered (never registered, or after any
\* register/unregister history that left reg_handle at 0), enabled is false
\* for every level and keyword, and a further unregister() returns 0 without
\* calling the OS and without changing any state.
C5_UnregisteredIsDisabledAndIdempotent ==
    /\ [](reg_handle = 0 => NeverEnabled)
    /\ [][C5_NoOpUnregisterStep]_vars

\* C5 case: after a registration that was enabled with a non-empty filter and
\* then unregistered, a further unregister() has returned.
C5_Witness ==
    \E t \in Threads :
        /\ th[t].op = "unregister"
        /\ th[t].pc = "returned"
        /\ th[t].entryHandle = 0
        /\ ~th[t].was_busy
        /\ osIssued > 0
        /\ keyword_any # 0
        /\ reg_handle = 0

\* Some register call has got the OS to open a registration and has not yet
\* returned.
RegisterSucceeding ==
    \E u \in Threads :
        /\ th[u].op = "register"
        /\ th[u].pc \in {"reg_release", "reg_setinfo"}
        /\ th[u].result = 0

\* C6 (as claimed): from the return of a failed register() until a later
\* register() has returned 0, enabled is false and an unregister() that gets
\* the busy flag finds nothing to hand to the OS.
C6_DisabledUntilRegisterReturns ==
    osLog.lastRegister = "failed" =>
        /\ NeverEnabled
        /\ ~busy => NothingToUnregister

\* C6 (amended): after a register() returned non-zero, enabled is false, the
\* handle is 0 and no step calls the OS unregister entry point, until a later
\* register() call's OS registration succeeds; that happens inside the call,
\* before it returns 0.
C6_DisabledUntilOsRegisterSucceeds ==
    /\ []((osLog.lastRegister = "failed" /\ ~RegisterSucceeding) =>
            (NeverEnabled /\ NothingToUnregister /\ osOpen = {}))
    /\ [][(osLog.lastRegister = "failed" /\ ~RegisterSucceeding) =>
            \A t \in Threads :
                CallsOf(th'[t], "EventUnregister") \subseteq
                    CallsOf(th[t], "EventUnregister")]_vars

\* C6 case: following a failed register() on a context that had been
\* registered and filtered before, an unregister() has run to its end.
C6_Witness ==
    \E t \in Threads :
        /\ osLog.lastRegister = "failed"
        /\ ~RegisterSucceeding
        /\ th[t].op = "unregister"
        /\ th[t].pc = "returned"
        /\ ~th[t].was_busy
        /\ osIssued > 0
        /\ keyword_any # 0

\* C7 (as claimed): the OS never sees a write on an open registration whose
\* traits have not been set, and set_information is called exactly by the
\* register() calls whose OS register returned 0.
C7_TraitsBeforeAnyWrite ==
    /\ osLog.earlyWrite = "none"
    /\ \A t \in Threads :
           (th[t].op = "register" /\ th[t].pc = "returned") =>
               (CallsOf(th[t], "EventSetInformation") # {} <=> th[t].result = 0)

\* C7 (amended): register() calls set_information with class 2 before it
\* returns 0, so the only writes that can reach an open registration ahead of
\* its traits are those that overlap a running register() call; a register()
\* whose OS register returned non-zero does not call set_information.
C7_TraitsBeforeRegisterReturns ==
    /\ osLog.earlyWrite # "after_return"
    /\ (osOpen \ osTraits # {}) => RegisterSucceeding
    /\ \A t \in Threads :
           (th[t].op = "register" /\ th[t].pc = "returned") =>
               /\ CallsOf(th[t], "EventSetInformation") # {} <=> th[t].result = 0
               /\ CallsOf(th[t], "EventSetInformation")
                      \subseteq {<<"EventSetInformation", EventProviderSetTraits>>}

\* C7 case: a write overlapped a register() call and reached the OS ahead of
\* the traits; the call has since published them and returned 0.
C7_Witness ==
    \E t \in Threads :
        /\ osLog.earlyWrite = "during_register"
        /\ th[t].op = "register"
        /\ th[t].pc = "returned"
        /\ th[t].result = 0
        /\ reg_handle \in osTraits

\* C8: an enable callback with control code 0 sets the level to -1 and keeps
\* both masks; with code 1 it stores its level and mask arguments; with any
\* other code it keeps level and masks. It never changes reg_handle, busy or
\* the stored user callback and context.
C8_CallbackEffect ==
    [][\A code \in ControlCodes, lvl \in Levels, any \in Keywords, all \in Keywords :
          EnableCallback(code, lvl, any, all) =>
              /\ (code = 0) =>
                     /\ level' = -1
                     /\ UNCHANGED <<keyword_any, keyword_all>>
              /\ (code = 1) =>
                     /\ level' = lvl
                     /\ keyword_any' = any
                     /\ keyword_all' = all
              /\ (code \notin {0, 1}) =>
                     UNCHANGED <<level, keyword_any, keyword_all>>
              /\ UNCHANGED <<reg_handle, busy, callback_fn, callback_context>>]_vars

\* C8 case: the first registration, made with a user callback, was enabled
\* with a filter and then disabled: the level is -1 and the masks remain.
C8_Witness ==
    /\ osIssued = 1
    /\ reg_handle \in osOpen
    /\ callback_fn = "callback"
    /\ level = LevelNone
    /\ keyword_any = 2
    /\ keyword_all = 1

\* C9: when a registered Provider is dropped, the OS unregister entry point is
\* called with its handle before the drop is over, and once the context is
\* gone no registration is open.
C9_DropUnregisters ==
    /\ dropped => osOpen = {}
    /\ \A t \in Threads :
           (th[t].op = "drop" /\ th[t].entryHandle # 0 /\ th[t].pc = "returned") =>
               /\ <<"EventUnregister", th[t].entryHandle>> \in th[t].osCalls
               /\ osOpen = {}

\* C9 case: the drop of a registered and enabled provider has run to its end.
C9_Witness ==
    \E t \in Threads :
        /\ th[t].op = "drop"
        /\ th[t].entryHandle # 0
        /\ th[t].pc = "returned"
        /\ ~th[t].was_busy
        /\ keyword_any # 0

\* C10: for every write_event! invocation, in every state: when
\* PROVIDER.enabled(level, keyword) is false the generated expression yields 0,
\* evaluates none of the caller's value, activity_id and related_id
\* expressions and makes no native write; when it is true each of those
\* expressions is evaluated exactly once, one native write is made and the
\* expression's value is what that write returned.
C10_GuardedSingleEvaluation ==
    \A ev \in Events :
        LET r == Run(ev)
        IN  IF enabled(ev.level, ev.keyword)
            THEN /\ \A e \in UserExprs(ev) : r.evals[e] = 1
                 /\ r.writes = 1
                 /\ r.result = EventWriteTransfer(reg_handle)
            ELSE /\ \A e \in UserExprs(ev) : r.evals[e] = 0
                 /\ r.writes = 0
                 /\ r.result = 0

\* C10 case: while the provider was registered and enabled at a level with a
\* keyword filter, a write_event! expression made its one native write and
\* yielded the write's result.
C10_Witness ==
    /\ osLog.lastEvent = <<1, EventWriteTransfer(reg_handle)>>
    /\ reg_handle \in osOpen
    /\ level >= 0
    /\ keyword_any # 0

\* C11: EventBuilder.write returns 534 and makes no native write call when
\* the metadata buffer holds more than 65535 bytes; when it holds 65535 bytes
\* or fewer it makes exactly one native write call and returns that call's
\* result.
C11_WriteOverflowOrOneCall ==
    [][BuilderWrite =>
          IF VecLen(eb.meta) > 65535
          THEN /\ eb'.last.result = 534
               /\ eb'.last.calls = <<>>
          ELSE /\ Len(eb'.last.calls) = 1
               /\ eb'.last.result = EventWriteTransfer(reg_handle)]_vars

\* C11 case: a write of 65536 metadata bytes has returned 534 without a
\* native call.
C11_Witness ==
    /\ VecLen(eb.meta) = 65536
    /\ eb.last.result = 534
    /\ eb.last.calls = <<>>

\* C12: when the metadata is at most 65535 bytes, write passes exactly three
\* data descriptors, provider metadata (reserved 2), event metadata (reserved
\* 1), event data (reserved 0), in this order, and the event metadata's first
\* two bytes are its total length as a little-endian 16-bit value.
C12_ThreeDescriptorsAndSizePrefix ==
    [][(BuilderWrite /\ VecLen(eb.meta) <= 65535) =>
          /\ Len(eb'.last.calls) = 1
          /\ LET dd == eb'.last.calls[1]
             IN  /\ Len(dd) = 3
                 /\ dd[1] = [bytes |-> "provider.meta", reserved |-> 2]
                 /\ dd[2] = [bytes |-> "self.meta", reserved |-> 1]
                 /\ dd[3] = [bytes |-> "self.data", reserved |-> 0]
          /\ VecAt(eb'.meta, 0) \in 0 .. 255
          /\ VecAt(eb'.meta, 1) \in 0 .. 255
          /\ VecAt(eb'.meta, 0) + 256 * VecAt(eb'.meta, 1) = VecLen(eb'.meta)
          /\ eb'.data = eb.data
          /\ VecDrop(eb'.meta, 2) = VecDrop(eb.meta, 2)]_vars

\* C12 case: an event with a field and metadata of more than 255 bytes has
\* been written with the three descriptors; its size prefix uses both bytes.
C12_Witness ==
    /\ Len(eb.last.calls) = 1
    /\ VecLen(eb.meta) > 255
    /\ VecLen(eb.meta) < 65535
    /\ VecLen(eb.data) > 0
    /\ VecAt(eb.meta, 1) > 0
    /\ VecAt(eb.meta, 0) + 256 * VecAt(eb.meta, 1) = VecLen(eb.meta)

\* C13: whatever events the builder has built before, reset(name, level,
\* keyword, tag) leaves the metadata buffer, the data buffer and the
\* descriptor that a newly constructed builder gets from the same reset:
\* nothing of an earlier event survives, and id, version and task are 0,
\* channel is TraceLogging (11) and opcode is Info (0).
C13_ResetDependsOnArgumentsOnly ==
    \A name \in EventNames, lvl \in Levels, keyword \in {1, 2 ^ KwBits - 1},
       event_tag \in Tags :
        LET fresh == reset(EventBuilder_new, name, lvl, keyword, event_tag)
            after == reset(eb, name, lvl, keyword, event_tag)
        IN  /\ after.meta = fresh.meta
            /\ after.data = <<>>
            /\ after.descriptor = fresh.descriptor
            /\ after.descriptor =
                   [id |-> 0, version |-> 0, channel |-> 11, level |-> lvl,
                    opcode |-> 0, task |-> 0, keyword |-> keyword]
            /\ VecTake(after.meta, 2) = <<<<0, 2>>>>
            /\ VecLen(after.meta) \in {VecLen(name) + n : n \in {4, 5, 7}}

\* C13 case: after an event was written (its size patched into the metadata),
\* a reset has left a builder with an unpatched size, no data and a default
\* descriptor.
C13_Witness ==
    /\ eb.last.calls # <<>>
    /\ VecTake(eb.meta, 2) = <<<<0, 2>>>>
    /\ VecLen(eb.meta) > 4
    /\ eb.data = <<>>
    /\ eb.descriptor = EventDescriptor_new(MaxLevel, 1)

\* The number of times a diagnostic was raised by the latest expansion.
Diagnostics(message) ==
    Cardinality({i \in DOMAIN mac.event.errors :
                    /\ mac.event.errors[i].kind = "group"
                    /\ mac.event.errors[i].text = message})

\* C14: for every schema that write_event! accepts, the estimated metadata
\* byte count is at least the number of metadata bytes the generator emits,
\* so the emitted metadata is at most 65535 bytes and its 16-bit size prefix
\* holds its size.
C14_EstimateCoversEmittedMetadata ==
    (mac.expanded /\ mac.ok) =>
        /\ mac.event.estimated_metadata_bytes_used >= mac.meta_size
        /\ mac.meta_size <= METADATA_BYTES_MAX
        /\ mac.size_prefix = mac.meta_size

\* The fields with a name among the items directly between a struct's braces.
RECURSIVE DirectMembers(_)
DirectMembers(members) ==
    IF members = <<>> THEN 0
    ELSE (IF members[1].option = "raw_data" THEN 0 ELSE members[1].n)
             + DirectMembers(Tail(members))

\* The structs, at any depth, with more than 127 direct members.
RECURSIVE OversizeStructs(_)
OversizeStructs(items) ==
    IF items = <<>> THEN 0
    ELSE (IF items[1].option = "struct"
          THEN (IF DirectMembers(items[1].members) > 127 THEN 1 ELSE 0)
                   + OversizeStructs(items[1].members)
          ELSE 0)
             + OversizeStructs(Tail(items))

\* C15: parsing raises the struct-size diagnostic once for every struct that
\* has more than 127 direct members, whatever the event's other totals are,
\* and for no struct with 127 or fewer direct members; an expansion with such
\* a diagnostic fails.
C15_StructMemberLimit ==
    mac.expanded =>
        /\ Diagnostics("too many fields in struct")
               = OversizeStructs(mac.schema.top)
        /\ OversizeStructs(mac.schema.top) > 0 => ~mac.ok

\* C15 case: a struct with one direct member, itself a struct of 128 members,
\* in an event that other diagnostics were raised for as well.
C15_Witness ==
    /\ mac.expanded
    /\ \E i \in DOMAIN mac.schema.top :
           /\ mac.schema.top[i].option = "struct"
           /\ DirectMembers(mac.schema.top[i].members) = 1
           /\ OversizeStructs(mac.schema.top[i].members) = 1
    /\ Diagnostics("too many fields in struct") = 1
    /\ Diagnostics("event has too many fields") = 1

\* The fields of an event counting each struct as one field.
RECURSIVE TopLevelFields(_)
TopLevelFields(items) ==
    IF items = <<>> THEN 0 ELSE items[1].n + TopLevelFields(Tail(items))

\* The fields of an event counting each struct and each of its members.
RECURSIVE AllFields(_)
AllFields(items) ==
    IF items = <<>> THEN 0
    ELSE items[1].n + AllFields(items[1].members) + AllFields(Tail(items))

\* C16 as stated: the total-field limit counts each struct as one field and
\* not its nested members, so an event with at most 128 fields at its top
\* level is never rejected for having too many fields.
C16_NestedMembersNotCounted ==
    (mac.expanded /\ TopLevelFields(mac.schema.top) <= 128) =>
        Diagnostics("event has too many fields") = 0

\* C16 amended: the total-field limit counts every field that is parsed, each
\* struct and each member nested in it at any depth: the too-many-fields
\* diagnostic is raised, once, exactly when that count exceeds 128.
C16_EveryParsedFieldCounted ==
    mac.expanded =>
        Diagnostics("event has too many fields")
            = (IF AllFields(mac.schema.top) > 128 THEN 1 ELSE 0)

\* C16 case: two fields at the top level, one of them a struct of 127
\* members, rejected for having too many fields and for nothing else.
C16_Witness ==
    /\ mac.expanded
    /\ TopLevelFields(mac.schema.top) = 2
    /\ AllFields(mac.schema.top) = 129
    /\ Diagnostics("event has too many fields") * 9 = Len(mac.event.errors)
    /\ mac.event.errors # <<>>

\* Bytes first .. last - 1 of a byte vector, one by one.
Slice(v, first, last) == [i \in 1 .. (last - first) |-> VecAt(v, first + i - 1)]

\* C17: for every provider name under 32768 bytes and optional group id, the
\* metadata built by the dynamic Provider constructor is byte for byte the
\* metadata that define_provider! emits: the blob's own length as 16 bits in
\* little-endian order, the name, a NUL and, exactly when a group id is
\* given, the 19-byte group trait: 19, 0, 1 and the group id's fields in
\* little-endian order.
C17_DynamicMetaEqualsStaticMeta ==
    app.op = "provider" =>
        LET meta == app.dynamic_meta
            n == VecLen(app.name)
            g == app.group_id[1]
        IN  /\ meta = app.static_meta
            /\ VecLen(meta) = n + 3 + (IF app.group_id = <<>> THEN 0 ELSE 19)
            /\ VecAt(meta, 0) + 256 * VecAt(meta, 1) = VecLen(meta)
            /\ VecTake(VecDrop(meta, 2), n) = app.name
            /\ VecAt(meta, n + 2) = 0
            /\ app.group_id # <<>> =>
                   Slice(meta, n + 3, n + 22) =
                       <<19, 0, 1,
                         g.data1 % 256, (g.data1 \div 256) % 256,
                         (g.data1 \div 65536) % 256, g.data1 \div 16777216,
                         g.data2 % 256, g.data2 \div 256,
                         g.data3 % 256, g.data3 \div 256>> \o g.data4

\* C17 case: a provider with a group id whose metadata length needs both
\* bytes of the length prefix.
C17_Witness ==
    /\ app.op = "provider"
    /\ app.group_id # <<>>
    /\ app.group_id[1].data1 > 255
    /\ VecAt(app.dynamic_meta, 0) > 0
    /\ VecAt(app.dynamic_meta, 1) > 0

\* The smaller of two numbers.
Min(a, b) == IF a <= b THEN a ELSE b

\* C18: for every slice of len elements of s >= 1 bytes, counted_size is the
\* byte size of the descriptor that from_counted makes,
\* s * min(len, floor(65535 / s)), and slice_count is the number of elements
\* that the descriptor of from_slice covers, min(len, 65535).
C18_LengthPrefixMatchesDescriptor ==
    app.op = "slice" =>
        /\ app.counted_size = app.from_counted.size
        /\ app.counted_size
               = app.size_of_T * Min(app.len, 65535 \div app.size_of_T)
        /\ app.slice_count * app.size_of_T = app.from_slice.size
        /\ app.slice_count = Min(app.len, 65535)

\* C18 case: a slice of more than 65535 two-byte elements, cut to 32767
\* elements as a counted field and to 65535 elements as an array.
C18_Witness ==
    /\ app.op = "slice"
    /\ app.size_of_T = 2
    /\ app.len > 65535
    /\ app.from_counted.size = 65534
    /\ app.from_slice.size = 131070

\* The 28-bit value of a sequence of tag bytes: the 7-bit payloads, the first
\* one highest, padded on the right with zero bits.
RECURSIVE TagValueOf(_, _)
TagValueOf(bytes, shift) ==
    IF bytes = <<>> THEN 0
    ELSE (Head(bytes) % 128) * 2 ^ shift + TagValueOf(Tail(bytes), shift - 7)

\* C19: for every 28-bit tag t, tag_encode with SIZE = tag_size(t) gives 1 to
\* 4 bytes of which exactly the bytes before the last have bit 0x80 set,
\* whose 7-bit payloads, highest first and padded with zero bits to 28 bits,
\* are t, and no shorter sequence holds t; the size is 1, 2, 3 or 4 as the
\* low 21, 14, 7 or no bits of t are all zero.
C19_TagEncodingShortest ==
    app.op = "tag" =>
        LET n == Len(app.bytes)
        IN  /\ n = app.size
            /\ n \in 1 .. 4
            /\ \A i \in 1 .. n : (app.bytes[i] >= 128) <=> (i < n)
            /\ TagValueOf(app.bytes, 21) = app.tag
            /\ \A k \in 1 .. (n - 1) : app.tag % 2 ^ (28 - 7 * k) # 0
            /\ n = (IF app.tag % 2097152 = 0 THEN 1
                    ELSE IF app.tag % 16384 = 0 THEN 2
                    ELSE IF app.tag % 128 = 0 THEN 3
                    ELSE 4)

\* C19 case: a tag encoded in three bytes whose payloads are all different.
C19_Witness ==
    /\ app.op = "tag"
    /\ app.bytes = <<128 + 127, 128 + 1, 64>>

\* Whole numbers without a size limit, for stating C20: eight digits of base
\* 10000, lowest first.
Dec(x) == <<x % 10000, (x \div 10000) % 10000, x \div 100000000, 0, 0, 0, 0, 0>>

RECURSIVE DecAddFrom(_, _, _, _)
DecAddFrom(a, b, i, carry) ==
    IF i > 8 THEN <<>>
    ELSE <<(a[i] + b[i] + carry) % 10000>>
             \o DecAddFrom(a, b, i + 1, (a[i] + b[i] + carry) \div 10000)

DecAdd(a, b) == DecAddFrom(a, b, 1, 0)

RECURSIVE DecMulFrom(_, _, _, _)
DecMulFrom(a, k, i, carry) ==
    IF i > 8 THEN <<>>
    ELSE <<(a[i] * k + carry) % 10000>>
             \o DecMulFrom(a, k, i + 1, (a[i] * k + carry) \div 10000)

\* a * k for k up to 65536
DecMul(a, k) == DecMulFrom(a, k, 1, 0)

DecLess(a, b) ==
    \E i \in 1 .. 8 : a[i] < b[i] /\ \A j \in (i + 1) .. 8 : a[j] = b[j]

\* The number that four 16-bit limbs, lowest first, stand for.
DecOf(u) ==
    DecAdd(DecMul(DecAdd(DecMul(DecAdd(DecMul(Dec(u[4]), 65536), Dec(u[3])),
                                65536), Dec(u[2])), 65536), Dec(u[1]))

\* C20: for every duration (secs, nanos < 10^9) and sign, the FILETIME
\* conversion returns clamp(E, 0, 0x7FFF35F4F06C7FFF), where E is
\* 0x19DB1DED53E8000 + secs * 10^7 + floor(nanos / 100) after 1970 and
\* 0x19DB1DED53E8000 - secs * 10^7 - ceil(nanos / 100) before 1970; the
\* result is never negative and never above the maximum.
C20_FiletimeClamped ==
    app.op = "filetime" =>
        LET epoch == DecOf(<<\h8000, \hD53E, \hB1DE, \h019D>>)
            max == DecOf(<<\h7FFF, \hF06C, \h35F4, \h7FFF>>)
            ticks == DecMul(DecMul(DecOf(app.secs), 10000), 1000)
            after == DecAdd(DecAdd(epoch, ticks), Dec(app.nanos \div 100))
            \* before 1970, E = epoch - back
            back == DecAdd(ticks, Dec((app.nanos + 99) \div 100))
            result == DecOf(app.filetime)
        IN  /\ ~I64_negative(app.filetime)
            /\ ~DecLess(max, result)
            /\ app.positive =>
                   IF DecLess(max, after) THEN result = max ELSE result = after
            /\ ~app.positive =>
                   IF DecLess(epoch, back) THEN result = Dec(0)
                   ELSE DecAdd(result, back) = epoch

\* C20 case: a time before 1970 with a fraction of a tick, which is rounded
\* to the earlier tick, one second before the conversion reaches 0.
C20_Witness ==
    /\ app.op = "filetime"
    /\ ~app.positive
    /\ app.secs = SECS_MAX_NEG
    /\ app.nanos = 101
    /\ app.filetime = U64(9999998)


\* ------------------------------------------------ registration life cycle
\* A thread is inside a register or unregister call (drop included) that has
\* neither returned nor panicked.
Executing(t) == th[t].pc \notin {"idle", "returned", "panicked"}

\* C22 (as claimed): once the OS unregister entry point has been invoked for
\* a registration, and until a later OS registration succeeds, enabled is
\* false for every level and keyword: there is no window in which the
\* context reports enabled while its handle is closed.
C22_DisabledFromOsUnregister ==
    (osIssued > 0 /\ osOpen = {}) => NeverEnabled

\* C22 (amended): unregister() invokes the OS unregister entry point first and
\* stores level = -1 next, before it releases the busy flag. So enabled can
\* return true on a closed registration only while that unregister call stands
\* between its OS call and its level store; at every other moment without an
\* open registration enabled is false, and the level becomes non-negative
\* again only by an enable callback, which needs an open registration.
C22_EnabledOnlyUntilLevelStore ==
    /\ [](osOpen = {} =>
            (NeverEnabled \/ \E t \in Threads : th[t].pc = "unreg_level"))
    /\ [][(level' # level /\ level' # LevelNone) =>
            (osOpen # {} /\ th' = th)]_vars

\* C22 case: an unregister() of a registration that an enable callback had
\* filtered has made its OS call and has just stored the level.
C22_Witness ==
    \E t \in Threads :
        /\ th[t].op = "unregister"
        /\ th[t].pc = "unreg_handle"
        /\ CallsOf(th[t], "EventUnregister") # {}
        /\ keyword_any # 0
        /\ osOpen = {}
        /\ level = LevelNone

\* C23: whenever no register() or unregister() call is executing, the busy
\* flag is clear, on every exit path, the already-registered panic of
\* register() included; so an unregister() that starts then finds the flag
\* free and, with a non-zero handle, reaches the OS unregister entry point.
C23_BusyClearWhenNoCallExecutes ==
    /\ (\A t \in Threads : ~Executing(t)) => ~busy
    /\ \A t \in Threads :
           ( /\ th[t].op \in {"unregister", "drop"}
             /\ th[t].pc \notin {"idle", "unreg_check"}
             /\ ~th[t].was_busy
             /\ th[t].entryHandle # 0 ) =>
               CallsOf(th[t], "EventUnregister") = {<<"EventUnregister", th[t].entryHandle>>}

\* C23 case: a register() has panicked because the provider was already
\* registered, and an unregister() on the other thread has reached the OS.
C23_Witness ==
    \E t \in Threads, u \in Threads :
        /\ th[t].op = "register"
        /\ th[t].pc = "panicked"
        /\ ~th[t].was_busy
        /\ th[t].entryHandle # 0
        /\ th[u].op = "unregister"
        /\ th[u].pc = "returned"
        /\ CallsOf(th[u], "EventUnregister") # {}
        /\ ~busy

\* C24: in every interleaving of register, unregister and drop, the OS
\* unregister entry point is invoked only with a handle that a successful OS
\* register call returned and that is still open: never with 0, never with
\* a handle that was unregistered before.
C24_UnregisterOnlyOpenHandles ==
    /\ ~osLog.badUnregister
    /\ \A t \in Threads : \A c \in CallsOf(th[t], "EventUnregister") :
           c[2] \in 1 .. osIssued /\ c[2] \notin osOpen
    /\ reg_handle # 0 =>
           (reg_handle \in osOpen \/ \E t \in Threads : th[t].pc \in {"unreg_level", "unreg_handle"})

\* C24 case: the second registration of a context has been unregistered by
\* its drop, after the first was unregistered by a call.
C24_Witness ==
    \E t \in Threads :
        /\ th[t].op = "drop"
        /\ th[t].pc = "returned"
        /\ CallsOf(th[t], "EventUnregister") = {<<"EventUnregister", MaxRegs>>}
        /\ osIssued = MaxRegs
        /\ osOpen = {}


\* ------------------------------------------------------- builder tag bytes
\* The bytes of a field's metadata that follow its name, NUL, in-type byte
\* and out-type byte.
FieldTagBytes ==
    Slice(eb.meta, app.meta_start + app.name_len + 1 + 2, VecLen(eb.meta))

\* The bytes reset writes for an event tag.
ResetTagBytesOf(tag) ==
    LET v == reset_tag_bytes(<<>>, tag) IN Slice(v, 0, VecLen(v))

\* C25 (as claimed): a non-zero field tag is encoded in the field's metadata
\* in 1, 2 or 4 bytes by the same three-way scheme as reset: the same bytes
\* reset emits for an equal event tag.
C25_FieldTagBytesAsReset ==
    (app.op = "add_u8" /\ app.tag # 0) => FieldTagBytes = ResetTagBytesOf(app.tag)

\* C25 (amended): a non-zero field tag always takes four bytes of the
\* field's metadata, after an in-type and an out-type byte that both carry
\* 0x80: the four 7-bit groups of the tag, highest first, 0x80 set on the
\* first three; they decode to the tag, and they are the bytes reset emits
\* for an equal event tag only when the tag has a bit below its top 14.
\* With tag 0 there are no tag bytes.
C25_FieldTagAlwaysFourBytes ==
    app.op = "add_u8" =>
        IF app.tag = 0
        THEN VecLen(eb.meta) = app.meta_start + app.name_len + 1
                                   + (IF app.out_type # 0 THEN 2 ELSE 1)
        ELSE /\ VecAt(eb.meta, app.meta_start + app.name_len + 1) = InType_U8 + 128
             /\ VecAt(eb.meta, app.meta_start + app.name_len + 2) = app.out_type + 128
             /\ FieldTagBytes =
                    <<128 + ((app.tag \div 2097152) % 128), 128 + ((app.tag \div 16384) % 128),
                      128 + ((app.tag \div 128) % 128), app.tag % 128>>
             /\ TagValueOf(FieldTagBytes, 21) = app.tag
             /\ (FieldTagBytes = ResetTagBytesOf(app.tag)) <=> (app.tag % 16384 # 0)

\* C25 case: a field tag with bits in its top 7 bits only, which reset would
\* write in one byte.
C25_Witness ==
    /\ app.op = "add_u8"
    /\ app.tag = 127 * 2097152
    /\ app.out_type = OutType_Default
    /\ Len(FieldTagBytes) = 4

\* The event tag's bytes in the metadata reset has written: between the two
\* size bytes and the name.
EventTagBytes == Slice(eb.meta, 2, VecLen(eb.meta) - app.name_len - 1)

\* C26: for every 28-bit event tag t, the tag bytes reset writes carry 0x80
\* on every byte but the last and their 7-bit payloads, highest first and
\* left-aligned in 28 bits, are t; they are byte for byte those of
\* tag_encode with SIZE = tag_size(t) whenever tag_size(t) is 1, 2 or 4.
C26_ResetTagDecodesAndMatchesTagEncode ==
    app.op = "reset" =>
        LET n == Len(EventTagBytes)
        IN  /\ n \in {1, 2, 4}
            /\ \A i \in 1 .. n : (EventTagBytes[i] >= 128) <=> (i < n)
            /\ TagValueOf(EventTagBytes, 21) = app.tag
            /\ tag_size(app.tag) \in {1, 2, 4} =>
                   EventTagBytes = tag_encode(tag_size(app.tag), app.tag)
            /\ tag_size(app.tag) = 3 =>
                   /\ n = 4
                   /\ EventTagBytes =
                          [i \in 1 .. 4 |->
                              IF i = 4 THEN 0
                              ELSE Or80(tag_encode(3, app.tag)[i])]

\* C26 case: an event tag of two bytes with every bit of its top 14 set.
C26_Witness ==
    /\ app.op = "reset"
    /\ app.tag = 127 * 2097152 + 127 * 16384
    /\ EventTagBytes = <<255, 127>>


\* --------------------------------------------------------- sequence counts
\* C30: for a _sequence add over n items, the 2-byte little-endian count in
\* front of the items is the number of items appended to the data buffer,
\* which is min(n, 65535); the items past the 65535th are not appended.
C30_SequenceCountIsItemsAppended ==
    app.op = "sequence" =>
        LET n == app.n1 + app.n2
            appended == Min(n, 65535)
            from_first == Min(app.n1, appended)
            count == VecAt(eb.data, app.old_data_size)
                       + 256 * VecAt(eb.data, app.old_data_size + 1)
        IN  /\ count = appended
            /\ VecLen(eb.data) = app.old_data_size + 2 + app.size * appended
            /\ VecDrop(eb.data, app.old_data_size + 2) =
                   VecRepeat(VecRepeat(<<>>, app.first_byte, app.size * from_first),
                             SequenceSecondByte, app.size * (appended - from_first))

\* C30 case: a sequence of 65535 two-byte items followed by three more,
\* none of which is appended.
C30_Witness ==
    /\ app.op = "sequence"
    /\ app.n1 = 65535
    /\ app.n2 = 3
    /\ app.size = 2
    /\ VecTake(eb.data, 2) = <<<<255, 2>>>>
    /\ VecLen(eb.data) = 2 + 2 * 65535


\* ----------------------------------------------------------- name hashing
\* The 16 bytes from_name takes from the digest, byte 7 given its version
\* nibble.
C21_Bytes == NameGuidBytes(app.digest)

\* C21 (as claimed): Guid::from_name(name) is from_bytes_be of the first 16
\* digest bytes with byte 7 replaced by (byte7 & 0x0F) | 0x50: the bytes are
\* taken in RFC big-endian order.
C21_FromNameIsBigEndian ==
    app.op = "from_name" => app.guid = from_bytes_be(C21_Bytes)

\* C21 (amended): Guid::from_name(name) takes those 16 bytes in Windows
\* little-endian order: data1 is bytes 3, 2, 1, 0, data2 is bytes 5, 4, data3
\* is bytes 7, 6, so that the 5 written into byte 7 is the top nibble of data3,
\* and data4 is bytes 8 to 15; names that differ only in case give one Guid.
C21_FromNameIsLittleEndian ==
    app.op = "from_name" =>
        LET v == app.digest
        IN  /\ Len(v) = 20
            /\ app.guid.data1 = [hi |-> v[4] * 256 + v[3], lo |-> v[2] * 256 + v[1]]
            /\ app.guid.data2 = v[6] * 256 + v[5]
            /\ app.guid.data3 = (5 * 16 + (v[8] % 16)) * 256 + v[7]
            /\ app.guid.data3 \div 4096 = 5
            /\ app.guid.data4 = <<v[9], v[10], v[11], v[12], v[13], v[14], v[15], v[16]>>
            /\ app.guid = from_name(UpperChars(app.name))

\* C21 case: the name of the crate's example, "MyProvider", whose Guid is
\* b3864c38-4273-58c5-545b-8b3608343471.
C21_Witness ==
    /\ app.op = "from_name"
    /\ app.name = MyProviderName
    /\ app.guid = [data1 |-> [hi |-> \hB386, lo |-> \h4C38], data2 |-> \h4273,
                   data3 |-> \h58C5,
                   data4 |-> <<\h54, \h5B, \h8B, \h36, \h08, \h34, \h34, \h71>>]

\* The field options in a list of items, those of struct members included.
RECURSIVE OptionCount(_)
OptionCount(items) ==
    IF items = <<>> THEN 0
    ELSE items[1].n * (1 + OptionCount(items[1].members))
             + OptionCount(Tail(items))

\* For every struct of a list of items whose first option is at position
\* base + 1, the position of the struct's own identifier and the position of
\* the last option between its braces.
RECURSIVE StructRanges(_, _)
StructRanges(items, base) ==
    IF items = <<>> THEN {}
    ELSE IF items[1].option = "struct"
    THEN {<<base + 1, base + 1 + OptionCount(items[1].members)>>}
             \cup StructRanges(items[1].members, base + 1)
             \cup StructRanges(Tail(items),
                               base + 1 + OptionCount(items[1].members))
    ELSE StructRanges(Tail(items), base + items[1].n)

\* The directives in the output of the latest expansion: the positions, in
\* the output, of their compile_error identifiers.
DirectiveStarts ==
    {i \in DOMAIN mac.event.errors :
        /\ mac.event.errors[i].kind = "ident"
        /\ mac.event.errors[i].text = "compile_error"}

\* The output is a sequence of whole directives, each with one message and
\* with one span on all of its tokens, and an expansion is rejected exactly
\* when there is at least one.
OneDirectivePerDiagnostic ==
    LET out == mac.event.errors
    IN  /\ Len(out) = 9 * Cardinality(DirectiveStarts)
        /\ \A i \in DOMAIN out :
               /\ i % 9 = 6 <=> i \in DirectiveStarts
               /\ i % 9 = 8 <=> out[i].kind = "group"
               /\ i % 9 = 0 <=> out[i].text = ";"
               /\ out[i].span = out[9 * ((i - 1) \div 9) + 1].span
        /\ mac.ok <=> out = <<>>

RunningTotals ==
    {[message |-> "event metadata is too large", limit |-> METADATA_BYTES_MAX,
      start |-> 2 + 4 + mac.schema.name + 1],
     [message |-> "event has too many blocks of data", limit |-> DATA_DESC_MAX,
      start |-> 2],
     [message |-> "event has too many fields", limit |-> FIELDS_MAX,
      start |-> 0]}

\* What one field of an item adds to a running total.
ItemCost(total, item) ==
    IF total.message = "event metadata is too large"
    THEN item.name + 1 + (IF item.tag # <<>> THEN 6
                          ELSE IF item.option = "struct" THEN 2
                          ELSE IF FIELD_OPTIONS[item.option].outtype # 0 THEN 2
                          ELSE 1)
    ELSE IF total.message = "event has too many blocks of data"
    THEN data_count(FIELD_OPTIONS[item.option].strategy)
    ELSE 1

\* The fields of a run of n fields of one cost that fit under a limit.
FitCount(n, cost, room) ==
    IF cost = 0 \/ room \div cost >= n THEN n ELSE room \div cost

\* Walks the items in source order, the first at position base + 1, adding
\* each field's cost to the total used so far: first is the position of the
\* first field whose cost does not fit under the limit, or -1.
RECURSIVE FirstOver(_, _, _, _)
FirstOver(total, items, base, used) ==
    IF items = <<>> THEN [first |-> -1, base |-> base, used |-> used]
    ELSE LET item == items[1]
             cost == ItemCost(total, item)
             fit == FitCount(item.n, cost, total.limit - used)
         IN  IF fit < item.n
             THEN [first |-> base + fit + 1, base |-> base, used |-> used]
             ELSE IF item.option = "struct"
             THEN LET inner == FirstOver(total, item.members, base + 1,
                                         used + cost)
                  IN  IF inner.first # -1 THEN inner
                      ELSE FirstOver(total, Tail(items), inner.base, inner.used)
             ELSE FirstOver(total, Tail(items), base + item.n,
                            used + item.n * cost)

\* C28: during one expansion each of the three running totals (estimated
\* metadata bytes, data-descriptor blocks, total fields) raises at most one
\* diagnostic: none when every field fits under its limit, and otherwise one,
\* attached to the first field that does not fit, however many fields follow.
C28_OneDiagnosticPerTotalAtFirstExcess ==
    mac.expanded =>
        \A total \in RunningTotals :
            LET over == FirstOver(total, mac.schema.top, 0, total.start)
            IN  /\ Diagnostics(total.message) = (IF over.first = -1 THEN 0 ELSE 1)
                /\ \A i \in DirectiveStarts :
                       mac.event.errors[i + 2].text = total.message =>
                           mac.event.errors[i].span = over.first

\* C28 case: an expansion in which each of the three totals is exceeded and
\* more than a hundred fields follow the last of the three diagnostics.
C28_Witness ==
    /\ mac.expanded
    /\ \A total \in RunningTotals : Diagnostics(total.message) = 1
    /\ \A i \in DirectiveStarts :
           mac.event.errors[i].span + 100 < OptionCount(mac.schema.top)

\* The member counts stored in the out-type slots of the struct fields of a
\* field vector, in the vector's order.
RECURSIVE StoredMemberCounts(_)
StoredMemberCounts(fields) ==
    IF fields = <<>> THEN <<>>
    ELSE (IF fields[1][1].option = "struct"
          THEN <<fields[1][1].outtype_or_field_count_int>>
          ELSE <<>>) \o StoredMemberCounts(Tail(fields))

\* For the structs of a list of items, each before the structs between its
\* braces, the number of its direct members that have metadata: a nested
\* struct is one member and a raw_data field is none.
RECURSIVE DirectMemberCounts(_)
DirectMemberCounts(items) ==
    IF items = <<>> THEN <<>>
    ELSE (IF items[1].option = "struct"
          THEN <<DirectMembers(items[1].members)>>
                   \o DirectMemberCounts(items[1].members)
          ELSE <<>>) \o DirectMemberCounts(Tail(items))

\* C29: in every accepted expansion, the member count stored in the out-type
\* slot of each struct field is the number of the struct's direct members
\* that have metadata: a nested struct counts as one member whatever it
\* contains, and a field without metadata (raw_data) counts as none.
C29_StoredCountIsDirectMembersWithMetadata ==
    (mac.expanded /\ mac.ok) =>
        StoredMemberCounts(mac.event.fields) = DirectMemberCounts(mac.schema.top)

\* C29 case: an accepted struct whose members are a raw_data field and a
\* nested struct of two fields: it stores 1 and the nested struct stores 2.
C29_Witness ==
    /\ mac.expanded
    /\ mac.ok
    /\ \E i \in DOMAIN mac.schema.top :
           /\ mac.schema.top[i].option = "struct"
           /\ Len(mac.schema.top[i].members) = 2
           /\ mac.schema.top[i].members[1].option = "raw_data"
           /\ mac.schema.top[i].members[2].option = "struct"
    /\ StoredMemberCounts(mac.event.fields) = <<1, 2>>

====
